---- MODULE Spec2Model ----
(***************************************************************************)
(* Nexora Campus Copilot: the chat endpoint, the voice pipeline, the       *)
(* moderation gate, the NexoraService facade, the ConversationService      *)
(* running on PostgreSQL sessions, the tool HTTP helper and the RAG        *)
(* search filter, as state machines translated from the Python sources.    *)
(*                                                                         *)
(* Python strings are modelled as sequences of one-character strings, so   *)
(* that slicing, strip(), lower() and the `in` substring test are          *)
(* computed as the code computes them.                                     *)
(***************************************************************************)
EXTENDS Integers, Sequences, FiniteSets, TLC

\* ------------------------------------------------------------------------
\* Bounds of the model
\* ------------------------------------------------------------------------

\* requests (chat, voice, direct facade calls, service sessions) ever started
MaxReqs == 2

\* characters of a knowledge-base text
MaxText == 4

\* injected infrastructure failures (database statements that raise)
MaxFaults == 1

\* rows of the messages table after which such a session saves no more
MaxSaved == 2

\* ranked hits the knowledge store returns for one query
MaxHits == 3

\* ------------------------------------------------------------------------
\* Python string helpers
\* ------------------------------------------------------------------------

Min(a, b) == IF a < b THEN a ELSE b

Rep(c, n) == [i \in 1..n |-> c]

\* str.lower() on the characters the model uses
LowerChar(c) ==
    CASE c = "B" -> "b"
      [] c = "O" -> "o"
      [] c = "M" -> "m"
      [] c = "F" -> "f"
      [] c = "T" -> "t"
      [] c = "P" -> "p"
      [] c = "N" -> "n"
      [] c = "H" -> "h"
      [] OTHER   -> c

Lower(s) == [i \in 1..Len(s) |-> LowerChar(s[i])]

\* the Python test `k in s` on strings
IsSubstring(k, s) ==
    \E i \in 0..(Len(s) - Len(k)) : SubSeq(s, i + 1, i + Len(k)) = k

Whitespace == {" "}

\* str.lstrip() and str.rstrip()
RECURSIVE LStrip(_)
LStrip(s) ==
    IF s = <<>> \/ Head(s) \notin Whitespace THEN s ELSE LStrip(Tail(s))

RECURSIVE RStrip(_)
RStrip(s) ==
    IF s = <<>> \/ s[Len(s)] \notin Whitespace THEN s
    ELSE RStrip(SubSeq(s, 1, Len(s) - 1))

\* str.strip()
Strip(s) == RStrip(LStrip(s))

\* s[:n]
Prefix(s, n) == SubSeq(s, 1, Min(n, Len(s)))

\* ------------------------------------------------------------------------
\* Messages a client may send (ChatRequest.message: 1..1000 characters)
\* ------------------------------------------------------------------------

MsgHi     == <<"H", "i">>
MsgPadded == <<" ", "h", "i", " ">>
MsgBlank  == <<" ">>
MsgBomb   == <<"a", " ", "B", "O", "M", "B">>
MsgLong   == Rep("a", 51)

\* messages of chat and voice requests
Messages == {MsgBomb}

\* contents saved through the ConversationService
Contents == {MsgPadded, MsgBlank, MsgLong}

\* contents of assistant messages saved through the ConversationService
ModelContents == {MsgHi}

\* ------------------------------------------------------------------------
\* Moderation gate (moderation_service.py)
\* ------------------------------------------------------------------------

flagged_keywords ==
    [hate       |-> {<<"h","a","t","e">>, <<"r","a","c","i","s","t">>,
                     <<"n","a","z","i">>,
                     <<"w","h","i","t","e"," ","s","u","p","r","e","m","a","c","y">>},
     violence   |-> {<<"k","i","l","l">>, <<"m","u","r","d","e","r">>,
                     <<"b","o","m","b">>,
                     <<"t","e","r","r","o","r","i","s","t">>},
     sexual     |-> {<<"F","u","c","k">>, <<"T","i","t","s">>,
                     <<"P","o","r","n">>, <<"N","u","d","e">>},
     harassment |-> {<<"h","a","r","a","s","s">>, <<"b","u","l","l","y">>,
                     <<"t","h","r","e","a","t","e","n">>},
     self_harm  |-> {<<"s","u","i","c","i","d","e">>,
                     <<"s","e","l","f"," ","h","a","r","m">>,
                     <<"c","u","t"," ","m","y","s","e","l","f">>}]

\* _keyword_moderation: the categories having a keyword inside the content
KeywordCategories(content) ==
    {cat \in DOMAIN flagged_keywords :
        \E k \in flagged_keywords[cat] : IsSubstring(Lower(k), Lower(content))}

_keyword_moderation(content) ==
    LET cats == KeywordCategories(content)
    IN  [flagged    |-> cats # {},
         categories |-> cats,
         reason     |-> IF cats # {} THEN "Content flagged for" ELSE "None"]

\* what the external moderation API can do with one call
ApiOutcomes == {"flag", "pass", "non200", "raise"}

\* _openai_moderation: a non-200 answer falls back to the keyword scan,
\* a 200 answer carries the API's own verdict; an exception of the call
\* (transport error, timeout, malformed body) propagates
_openai_moderation(content, api) ==
    IF api = "raise" THEN [raises |-> "Exception"]
    ELSE IF api = "non200" THEN _keyword_moderation(content)
    ELSE [flagged    |-> api = "flag",
          categories |-> IF api = "flag" THEN {"api"} ELSE {},
          reason     |-> IF api = "flag" THEN "Content flagged for" ELSE "None"]

\* the verdict of the except branch of moderate_content
ModerationUnavailable ==
    [flagged |-> FALSE, categories |-> {},
     reason |-> "Moderation service unavailable"]

\* a variant whose except branch runs the keyword scan
ModerateWithKeywordFallback(content, has_key, api) ==
    LET r == IF has_key THEN _openai_moderation(content, api)
             ELSE _keyword_moderation(content)
    IN  IF "raises" \in DOMAIN r THEN _keyword_moderation(content) ELSE r

\* moderate_content: the API when a key is configured, else the keyword
\* scan; never raises, any exception fails open
moderate_content(content, has_key, api) ==
    LET r == IF has_key THEN _openai_moderation(content, api)
             ELSE _keyword_moderation(content)
    IN  IF "raises" \in DOMAIN r THEN ModerationUnavailable ELSE r

RedirectMessage == "I'm sorry, but I cannot process messages that may contain inappropriate content."

\* a variant that answers a flagged message with an empty text
EmptyModerationMessage(result) == ""

get_moderation_response_message(result) ==
    IF ~result.flagged THEN "" ELSE RedirectMessage

\* ------------------------------------------------------------------------
\* Conversation title (conversation_service.py, _update_conversation_metadata)
\* ------------------------------------------------------------------------

TitleLen == 50

Ellipsis == <<".", ".", ".">>

\* title = first_message_content[:50].strip(), plus "..." when longer
MakeTitle(content) ==
    IF Len(content) > TitleLen
    THEN Strip(Prefix(content, TitleLen)) \o Ellipsis
    ELSE Strip(Prefix(content, TitleLen))

\* ------------------------------------------------------------------------
\* Python values and exceptions, as the tools see them
\* ------------------------------------------------------------------------

PyStr(s)  == [t |-> "str", v |-> s]
PyInt(n)  == [t |-> "int", v |-> n]
PyList(l) == [t |-> "list", v |-> l]
PyDict(d) == [t |-> "dict", v |-> d]
\* null in a JSON body
PyNone    == [t |-> "NoneType"]

\* a call returns a value or raises an exception whose str() is text
Ret(v) == [raised |-> FALSE, value |-> v]
Exc(e, text) == [raised |-> TRUE, exc |-> e, text |-> text]

ErrorChars == <<"e", "r", "r", "o", "r">>

\* "error" in x
ErrorIn(x) ==
    CASE x.t = "dict" -> Ret("error" \in DOMAIN x.v)
      [] x.t = "list" -> Ret(\E i \in 1..Len(x.v) : x.v[i] = PyStr(ErrorChars))
      [] x.t = "str"  -> Ret(IsSubstring(ErrorChars, x.v))
      [] OTHER        -> Exc("TypeError", "argument is not iterable")

\* an f-string: its literal part followed by str(e)
FString(literal, text) == <<literal, text>>

\* the dict every except branch of the tools builds
ErrorDict(literal, text) ==
    PyDict([error |-> FString(literal, text), success |-> FALSE])

\* item.get(key, ""): the value under key, a null included, "" without it
Get(item, key) == IF key \in DOMAIN item.v THEN item.v[key] ELSE PyStr(<<>>)

\* str(value)
Str(x) ==
    CASE x.t = "str"      -> x.v
      [] x.t = "NoneType" -> <<"N", "o", "n", "e">>
      [] OTHER            -> <<"<", x.t, ">">>

\* value.lower(): only a str has the method
LowerOf(x) ==
    IF x.t = "str" THEN Ret(Lower(x.v))
    ELSE Exc("AttributeError", "object has no attribute 'lower'")

\* query.lower() in str(value).lower()
Matches(query, value) == IsSubstring(Lower(query), Lower(value))

\* ------------------------------------------------------------------------
\* handle_http_request (agents/tools/base.py)
\* ------------------------------------------------------------------------

\* subclasses of httpx.HTTPError
HTTPErrors == {"ConnectError", "ReadTimeout", "HTTPStatusError"}

\* method.upper()
Upper(method) ==
    CASE method = "get"  -> "GET"
      [] method = "post" -> "POST"
      [] OTHER           -> method

\* the try block: the request, raise_for_status(), response.json()
Request(method, outcome) ==
    IF Upper(method) \notin {"GET", "POST"}
    THEN Exc("HTTPToolError", "Unsupported HTTP method")
    ELSE CASE outcome.kind = "transport" -> Exc(outcome.exc, outcome.text)
           [] outcome.kind = "status"    -> Exc("HTTPStatusError", outcome.text)
           [] outcome.kind = "not_json"  -> Exc("JSONDecodeError", outcome.text)
           [] outcome.kind = "ok"        ->
                Ret(PyDict([data |-> outcome.data, success |-> TRUE]))

\* a variant without the except branches
RequestUncaught(method, outcome) == Request(method, outcome)

handle_http_request(method, outcome) ==
    LET a == Request(method, outcome)
    IN  IF ~a.raised THEN a
        ELSE IF a.exc \in HTTPErrors
             THEN Ret(ErrorDict("HTTP request failed: ", a.text))
             ELSE Ret(ErrorDict("Unexpected error: ", a.text))

\* try: ... except Exception as e: return {"error": f"<literal>{e}", ...}
Guard(a, literal) == IF a.raised THEN Ret(ErrorDict(literal, a.text)) ELSE a

\* ------------------------------------------------------------------------
\* Agent tools (agents/tools/*_tools.py)
\* ------------------------------------------------------------------------

\* the body shared by the fetch tools: the upstream data on success, the
\* error dict of handle_http_request otherwise
FetchBody(outcome) ==
    LET reply == handle_http_request("GET", outcome).value
    IN  IF reply.v.success THEN Ret(reply.v.data) ELSE Ret(reply)

fetch_bus_routes(outcome) == Guard(FetchBody(outcome), "Unexpected error: ")

fetch_events(outcome) == Guard(FetchBody(outcome), "Unexpected error: ")

fetch_departments(outcome) == Guard(FetchBody(outcome), "Unexpected error: ")

fetch_cafeteria_menu(outcome) == Guard(FetchBody(outcome), "Unexpected error: ")

\* isinstance(item, dict)
IsDict(item) == item.t = "dict"

\* the body of search_events and of search_events_direct after the fetch
SearchEventsBody(all_events, query) ==
    LET has_error == ErrorIn(all_events)
    IN  IF has_error.raised THEN has_error
        ELSE IF has_error.value THEN Ret(all_events)
        ELSE Ret(PyDict([query |-> query, events |-> all_events,
                         note |-> "Showing all available events.",
                         success |-> TRUE]))

search_events(outcome, query) ==
    Guard(SearchEventsBody(fetch_events(outcome).value, query), "Search failed: ")

search_events_direct(outcome, query) ==
    SearchEventsBody(FetchBody(outcome).value, query)

\* the body of search_bus_routes and of search_bus_routes_direct after the
\* fetch; route.get on an item that is not a dict raises AttributeError
SearchBusRoutesBody(all_routes, query) ==
    LET has_error == ErrorIn(all_routes)
        keep(route) == \/ Matches(query, Str(Get(route, "route_name")))
                       \/ Matches(query, Str(Get(route, "route_number")))
                       \/ Matches(query, Str(Get(route, "start_point")))
                       \/ Matches(query, Str(Get(route, "end_point")))
        filtered ==
            IF all_routes.t # "list" THEN Ret(<<>>)
            ELSE IF \E i \in 1..Len(all_routes.v) : ~IsDict(all_routes.v[i])
            THEN Exc("AttributeError", "object has no attribute 'get'")
            ELSE Ret(SelectSeq(all_routes.v, keep))
    IN  IF has_error.raised THEN has_error
        ELSE IF has_error.value THEN Ret(all_routes)
        ELSE IF filtered.raised THEN filtered
        ELSE Ret(PyDict([query |-> query, routes |-> filtered.value,
                         total_found |-> Len(filtered.value),
                         success |-> TRUE]))

search_bus_routes(outcome, query) ==
    Guard(SearchBusRoutesBody(fetch_bus_routes(outcome).value, query),
          "Search failed: ")

search_bus_routes_direct(outcome, query) ==
    SearchBusRoutesBody(FetchBody(outcome).value, query)

\* item.get(key, "").lower() raises for some dict among the items: a field
\* that is null or not a string has no lower()
LowerRaises(items, keys) ==
    \E i \in 1..Len(items) :
        IsDict(items[i]) /\ \E k \in keys : LowerOf(Get(items[i], k)).raised

\* the loop over departments_list: the dicts whose name or description
\* contains the query
DepartmentsFilter(departments_list, query) ==
    IF LowerRaises(departments_list, {"name", "description"})
    THEN Exc("AttributeError", "object has no attribute 'lower'")
    ELSE Ret(SelectSeq(departments_list,
                 LAMBDA dept :
                     IsDict(dept)
                     /\ (\/ Matches(query, Get(dept, "name").v)
                         \/ Matches(query, Get(dept, "description").v))))

SearchDepartmentsBody(all, departments_list, query) ==
    LET has_error == ErrorIn(all)
        filtered == DepartmentsFilter(departments_list, query)
    IN  IF has_error.raised THEN has_error
        ELSE IF has_error.value THEN Ret(all)
        ELSE IF filtered.raised THEN filtered
        ELSE Ret(PyDict([query |-> query,
                         departments |-> filtered.value,
                         total_count |-> Len(filtered.value),
                         success |-> TRUE]))

search_departments(outcome, query) ==
    LET all == fetch_departments(outcome).value
        departments_list ==
            CASE all.t = "list" -> all.v
              [] all.t = "dict" ->
                   IF "departments" \in DOMAIN all.v
                   THEN all.v.departments.v ELSE <<all>>
              [] OTHER -> <<>>
    IN  Guard(SearchDepartmentsBody(all, departments_list, query),
              "Search failed: ")

\* departments_list = all_departments if it is a list, else [all_departments]
search_departments_direct(outcome, query) ==
    LET all == FetchBody(outcome).value
        departments_list == IF all.t = "list" THEN all.v ELSE <<all>>
    IN  SearchDepartmentsBody(all, departments_list, query)

\* the lists among the values of a dict, concatenated (menu_items.extend)
RECURSIVE ExtendAll(_, _)
ExtendAll(d, keys) ==
    IF keys = {} THEN <<>>
    ELSE LET k == CHOOSE x \in keys : TRUE
             rest_items == ExtendAll(d, keys \ {k})
         IN  IF d[k].t = "list" THEN d[k].v \o rest_items ELSE rest_items

\* the loop over menu_items; a menu item that is a plain string becomes
\* {"name": item}
MenuMatches(items, query) ==
    LET keep(item) ==
            IF IsDict(item)
            THEN \/ Matches(query, Get(item, "name").v)
                 \/ Matches(query, Get(item, "description").v)
                 \/ Matches(query, Get(item, "category").v)
                 \/ Matches(query, Str(Get(item, "ingredients")))
            ELSE item.t = "str" /\ Matches(query, item.v)
        kept == SelectSeq(items, keep)
    IN  IF LowerRaises(items, {"name", "description", "category"})
        THEN Exc("AttributeError", "object has no attribute 'lower'")
        ELSE Ret([i \in 1..Len(kept) |->
                    IF kept[i].t = "str" THEN PyDict([name |-> kept[i]])
                    ELSE kept[i]])

\* the body of search_menu_items and of search_menu_items_direct after the
\* fetch
SearchMenuItemsBody(menu_data, query) ==
    LET has_error == ErrorIn(menu_data)
        menu_items ==
            CASE menu_data.t = "list" -> menu_data.v
              [] menu_data.t = "dict" ->
                   IF "menu" \in DOMAIN menu_data.v THEN menu_data.v.menu.v
                   ELSE IF "items" \in DOMAIN menu_data.v THEN menu_data.v.items.v
                   ELSE IF "meals" \in DOMAIN menu_data.v THEN menu_data.v.meals.v
                   ELSE ExtendAll(menu_data.v, DOMAIN menu_data.v)
              [] OTHER -> <<>>
        filtered_items == MenuMatches(menu_items, query)
    IN  IF has_error.raised THEN has_error
        ELSE IF has_error.value THEN Ret(menu_data)
        ELSE IF filtered_items.raised THEN filtered_items
        ELSE Ret(PyDict([query |-> query, cafeteria_id |-> 0,
                         menu_items |-> filtered_items.value,
                         total_count |-> Len(filtered_items.value),
                         success |-> TRUE]))

search_menu_items(outcome, query) ==
    Guard(SearchMenuItemsBody(fetch_cafeteria_menu(outcome).value, query),
          "Menu search failed: ")

search_menu_items_direct(outcome, query) ==
    SearchMenuItemsBody(FetchBody(outcome).value, query)

\* ctx.deps.user_id as the request carries it
UserIds == {"None", "", "42", " 7 ", "abc"}

\* int(user_id): surrounding whitespace is ignored, anything that is not a
\* decimal literal raises ValueError
IntOf(user_id) ==
    CASE user_id = "42"  -> Ret(42)
      [] user_id = " 7 " -> Ret(7)
      [] OTHER           -> Exc("ValueError", "invalid literal")

\* a variant that posts without checking the user id of the context
UserBodyUnchecked(user_id, outcome, field, missing) ==
    LET reply == handle_http_request("POST", outcome).value
        n == IF IntOf(user_id).raised THEN 0 ELSE IntOf(user_id).value
    IN  Ret(reply) @@ [requests |-> <<[method |-> "POST",
                                       json |-> [user_id |-> n]]>>]

\* the body shared by get_user_exam_results and get_user_data: user_id is
\* required and must convert to int, then the data is POSTed for with the
\* body {"user_id": user_id_int}; `requests` are the HTTP requests issued
UserBody(user_id, outcome, field, missing) ==
    IF user_id \in {"None", ""}
    THEN Ret(PyDict([error |-> FString(missing, ""), success |-> FALSE]))
         @@ [requests |-> <<>>]
    ELSE IF IntOf(user_id).raised
    THEN Ret(PyDict([error |-> FString("Invalid user ID format.", ""),
                     success |-> FALSE]))
         @@ [requests |-> <<>>]
    ELSE LET request_body == [user_id |-> IntOf(user_id).value]
             reply == handle_http_request("POST", outcome).value
             returned == IF reply.v.success
                         THEN PyDict(field :> reply.v.data
                                     @@ [user_id |-> IntOf(user_id).value,
                                         success |-> TRUE])
                         ELSE reply
         IN  Ret(returned)
             @@ [requests |-> <<[method |-> "POST", json |-> request_body]>>]

get_user_exam_results(user_id, outcome) ==
    Guard(UserBody(user_id, outcome, "exam_results",
                   "User ID is required to fetch exam results. Please ensure you are logged in."),
          "Unexpected error: ")

get_user_data(user_id, outcome) ==
    Guard(UserBody(user_id, outcome, "user_data",
                   "User ID is required to fetch user data. Please ensure you are logged in."),
          "Unexpected error: ")

\* ------------------------------------------------------------------------
\* The campus API behind the tools
\* ------------------------------------------------------------------------

North == <<"N", "o", "r", "t", "h">>
Cafe  == <<"C", "a", "f", "e">>

\* JSON bodies the campus API answers with
UpstreamData ==
    {PyList(<<PyDict([route_name |-> PyStr(North), name |-> PyStr(North)]),
              PyDict([route_name |-> PyStr(Cafe), name |-> PyStr(Cafe)])>>),
     PyList(<<>>),
     PyList(<<PyStr(Cafe)>>),
     PyDict([name |-> PyStr(North), description |-> PyStr(Cafe)]),
     PyDict([departments |-> PyList(<<PyDict([name |-> PyStr(North)])>>)]),
     PyDict([menu |-> PyList(<<PyDict([name |-> PyStr(Cafe)]), PyStr(North)>>)]),
     PyDict([error |-> PyStr(<<"n", "o">>)]),
     PyList(<<PyDict([name |-> PyNone, route_name |-> PyNone])>>),
     PyDict([items |-> PyList(<<PyDict([name |-> PyStr(Cafe),
                                        category |-> PyNone])>>)]),
     PyInt(7)}

\* what one HTTP exchange with it can end in
HttpOutcomes ==
    {[kind |-> "ok", data |-> d] : d \in UpstreamData}
    \cup {[kind |-> "transport", exc |-> e, text |-> t] :
            e \in {"ConnectError", "ReadTimeout"},
            t \in {"", "All connection attempts failed"}}
    \cup {[kind |-> "status", text |-> t] :
            t \in {"Client error '404 Not Found'", "Server error '500'"}}
    \cup {[kind |-> "not_json", text |-> "Expecting value"]}

Queries == {<<"n", "o">>, <<"z">>}

Methods == {"GET", "post", "DELETE"}

\* ------------------------------------------------------------------------
\* RAGService.search_knowledge (services/rag_service.py)
\* ------------------------------------------------------------------------

\* settings.RAG_SIMILARITY_THRESHOLD = 0.7; scores are in hundredths
similarity_threshold == 70

\* settings.RAG_MAX_RESULTS
max_results == 10

\* what a reranked hit can carry: a relevance score, or no
\* _relevance_score key at all
Scores ==
    {[scored |-> FALSE]} \cup {[scored |-> TRUE, score |-> n] : n \in {0, 69, 70, 95}}

\* the hit at rank i of the store
Hit(i, s) ==
    IF s.scored THEN [id |-> i, _relevance_score |-> s.score] ELSE [id |-> i]

\* ranked hits the store holds for a query: up to MaxHits of them
RECURSIVE ScoreLists(_)
ScoreLists(n) ==
    IF n = 0 THEN {<<>>}
    ELSE LET shorter == ScoreLists(n - 1)
         IN  shorter \cup {Append(l, s) : l \in {x \in shorter : Len(x) = n - 1},
                                          s \in Scores}

RawHits == {[i \in 1..Len(l) |-> Hit(i, l[i])] : l \in ScoreLists(MaxHits)}

\* the limit argument: None, or a number of results
Limits == {0, 1, 2}

\* table.search(query).rerank(...).limit(search_limit).to_list()
StoreSearch(hits, search_limit) == SubSeq(hits, 1, Min(search_limit, Len(hits)))

\* result.get("_relevance_score", 0)
ScoreOf(hit) ==
    IF "_relevance_score" \in DOMAIN hit THEN hit._relevance_score ELSE 0

\* a variant that returns the hits of the store unfiltered
SearchUnfiltered(table_exists, hits, limit, fails) ==
    IF ~table_exists \/ fails THEN <<>>
    ELSE StoreSearch(hits, IF limit = 0 THEN max_results ELSE limit)

\* search_knowledge: [] without the table or on any exception, otherwise
\* the hits of the store that reach the similarity threshold
search_knowledge(table_exists, hits, limit, fails) ==
    IF ~table_exists \/ fails THEN <<>>
    ELSE LET search_limit == IF limit = 0 THEN max_results ELSE limit
             results == StoreSearch(hits, search_limit)
         IN  SelectSeq(results, LAMBDA r : ScoreOf(r) >= similarity_threshold)

\* ------------------------------------------------------------------------
\* RAGService.chunk_text and _process_markdown_files (services/rag_service.py)
\* ------------------------------------------------------------------------

\* settings.RAG_CHUNK_SIZE
RAG_CHUNK_SIZE == 8192

\* chunk sizes the service is configured with in the small
ChunkSizes == {1, 2, 3}

TextChars == {"a", "b"}

\* texts of up to MaxText characters
Texts == UNION {[1..n -> TextChars] : n \in 0..MaxText}

\* encoding.encode: a byte-pair vocabulary with the tokens "a", "b" and the
\* merged pair "ab"; a token is the sequence of its characters
RECURSIVE Encode(_)
Encode(text) ==
    IF text = <<>> THEN <<>>
    ELSE IF Len(text) >= 2 /\ text[1] = "a" /\ text[2] = "b"
         THEN <<SubSeq(text, 1, 2)>> \o Encode(SubSeq(text, 3, Len(text)))
         ELSE <<SubSeq(text, 1, 1)>> \o Encode(Tail(text))

\* encoding.decode: the characters of the tokens, joined
RECURSIVE Decode(_)
Decode(tokens) ==
    IF tokens = <<>> THEN <<>> ELSE Head(tokens) \o Decode(Tail(tokens))

\* for i in range(0, len(tokens), chunk_size): tokens[i : i + chunk_size]
RECURSIVE Windows(_, _)
Windows(tokens, chunk_size) ==
    IF tokens = <<>> THEN <<>>
    ELSE <<Prefix(tokens, chunk_size)>>
         \o Windows(SubSeq(tokens, Min(chunk_size, Len(tokens)) + 1, Len(tokens)),
                    chunk_size)

\* a variant that keeps only the full windows and drops a shorter last one
ChunkTextFullWindows(text, chunk_size, fails) ==
    IF fails THEN <<text>>
    ELSE LET windows == Windows(Encode(text), chunk_size)
             full == SelectSeq(windows, LAMBDA w : Len(w) = chunk_size)
         IN  [k \in 1..Len(full) |-> Decode(full[k])]

\* chunk_text: the decoded windows of the token sequence; when the
\* tokenizer raises (encoding not available, text it refuses to encode) the
\* except branch returns the whole text as the only chunk
chunk_text(text, chunk_size, fails) ==
    IF fails THEN <<text>>
    ELSE LET windows == Windows(Encode(text), chunk_size)
         IN  [k \in 1..Len(windows) |-> Decode(windows[k])]

\* the documents of one file: one per chunk, with its zero-based index and
\* the number of chunks of the file
DocumentsOf(file, chunks) ==
    [k \in 1..Len(chunks) |->
        [id |-> <<file.stem, "_chunk_", k - 1>>, text |-> chunks[k],
         source_file |-> file.stem, chunk_index |-> k - 1,
         file_size |-> Len(file.content), total_chunks |-> Len(chunks)]]

\* _process_markdown_files: the documents of every file that can be read,
\* in file order; a file whose reading raises is skipped
RECURSIVE _process_markdown_files(_, _, _)
_process_markdown_files(md_files, chunk_size, fails) ==
    IF md_files = <<>> THEN <<>>
    ELSE LET file == Head(md_files)
             docs == IF file.readable
                     THEN DocumentsOf(file, chunk_text(file.content, chunk_size, fails))
                     ELSE <<>>
         IN  docs \o _process_markdown_files(Tail(md_files), chunk_size, fails)

\* contents of the Markdown files of a knowledge base
FileTexts == {<<>>, <<"a", "b", "b">>, <<"b", "a", "a", "b">>}

MdFile(stem) == [stem : {stem}, content : FileTexts, readable : BOOLEAN]

\* knowledge-base directories of one or two files
Directories ==
    {<<f>> : f \in MdFile("campus")}
    \cup {<<f, g>> : f \in MdFile("campus"), g \in MdFile("library")}

\* the windows of the 20,000-token file of the load scenario at the
\* configured chunk size
ScenarioWindowSizes ==
    LET windows == Windows([i \in 1..20000 |-> <<"a">>], RAG_CHUNK_SIZE)
    IN  [k \in 1..Len(windows) |-> Len(windows[k])]

\* ------------------------------------------------------------------------
\* State
\* ------------------------------------------------------------------------

Procs == {"p1", "p2"}

SessionIds == {"s1"}

\* str(uuid4()) generated for the n-th request that names no session
GeneratedSessionIds == <<"uuid-1", "uuid-2", "uuid-3", "uuid-4">>

uuid4(n) == GeneratedSessionIds[n]

\* the session ids a conversation can be stored under
StoredSessionIds ==
    SessionIds \cup {GeneratedSessionIds[n] : n \in DOMAIN GeneratedSessionIds}

\* the user ids chat requests carry
ChatUsers == {"u1", "u2"}

VARIABLES
    convs,     \* conversations table (committed rows), keyed by session_id
    msgs,      \* messages table (committed rows), in commit order
    clock,     \* successive readings of datetime.utcnow()
    nreq,      \* requests started so far
    faults,    \* infrastructure failures injected so far
    has_key,   \* settings.OPENAI_API_KEY is configured
    knowledge, \* the RAGService settings and the LanceDB table it loads
    pc,        \* position of each task inside a ConversationService call
    at,        \* position of each task in its endpoint / facade code
    req,       \* the request each task is serving
    loc,       \* the Conversation object in the task's SQLAlchemy session
    pend,      \* Message rows added to the session and not yet committed
    call,      \* the ConversationService call in progress
    res,       \* outcome of the last ConversationService call
    conversation, \* local variable `conversation` of _process_with_history
    hist,      \* message_history obtained for the request
    verdict,   \* ModerationResult of the request
    answer,    \* text returned by OrchestratorAgent.handle_query
    agent_run, \* what agent.run was given: deps.http_client and the usage
    http,      \* the httpx.AsyncClient of the request and its aclose() calls
    result,    \* dict returned by NexoraService.chat
    out,       \* response sent to the client
    log,       \* calls made (and exceptions raised) while serving the request
    fn         \* the application of a tool or of the knowledge search observed

store == <<convs, msgs, clock>>
env   == <<nreq, faults, has_key, knowledge, fn>>
sess  == <<pc, loc, pend, call, res>>
task  == <<at, req, conversation, hist, verdict, answer, agent_run, result,
           out, http, log>>
vars  == <<convs, msgs, clock, nreq, faults, has_key, knowledge, pc, at, req, loc, pend,
           call, res, conversation, hist, verdict, answer, agent_run, result,
           out, http, log, fn>>

None     == "None"
NoConv   == [exists |-> FALSE]
NoReq    == [kind |-> "none"]
NoCall   == [name |-> "none"]
NoRes    == [status |-> "none"]
NoResult == [status |-> "none"]
NoOut    == [status |-> "none"]
NoFn     == [name |-> "none"]
NoKnowledge == [constructed |-> FALSE]
NoVerdict == [reason |-> "not moderated"]
NoRun    == [ran |-> FALSE]
NoHttp   == [client |-> <<"none", 0>>, owner |-> "none", closes |-> 0]

\* an Optional[str] that is None (distinct from the empty string <<>>)
NoneStr == <<"<None>">>

\* title = None
NoTitle == NoneStr

Falsy(title) == title = NoTitle \/ title = <<>>

\* Conversation(session_id=..., title=None): id default uuid4(),
\* total_messages default 0, is_active default True, last_activity server
\* default now()
NewConversation(id, sid, uid, now) ==
    [exists |-> TRUE, id |-> id, session_id |-> sid, user_id |-> uid,
     title |-> NoTitle,
     total_messages |-> 0, is_active |-> TRUE, last_activity |-> now]

\* Message(conversation_id=..., content=..., role=...)
Message(sid, role, content, id, success, intent, now) ==
    [conversation_id |-> sid, role |-> role, content |-> content, id |-> id,
     success |-> success, intent |-> intent, created_at |-> now]

\* rows of the messages table belonging to one conversation
MessagesOf(table, sid) == SelectSeq(table, LAMBDA m : m.conversation_id = sid)

Init ==
    /\ convs = [s \in StoredSessionIds |-> NoConv]
    /\ msgs = <<>>
    /\ clock = 1
    /\ nreq = 0
    /\ faults = 0
    /\ has_key \in BOOLEAN
    /\ knowledge = NoKnowledge
    /\ pc = [p \in Procs |-> "idle"]
    /\ at = [p \in Procs |-> "idle"]
    /\ req = [p \in Procs |-> NoReq]
    /\ loc = [p \in Procs |-> NoConv]
    /\ pend = [p \in Procs |-> <<>>]
    /\ call = [p \in Procs |-> NoCall]
    /\ res = [p \in Procs |-> NoRes]
    /\ conversation = [p \in Procs |-> None]
    /\ hist = [p \in Procs |-> <<>>]
    /\ verdict = [p \in Procs |-> NoVerdict]
    /\ answer = [p \in Procs |-> None]
    /\ agent_run = [p \in Procs |-> NoRun]
    /\ http = [p \in Procs |-> NoHttp]
    /\ result = [p \in Procs |-> NoResult]
    /\ out = [p \in Procs |-> NoOut]
    /\ log = [p \in Procs |-> <<>>]
    /\ fn = NoFn

\* ------------------------------------------------------------------------
\* SQLAlchemy session on PostgreSQL (READ COMMITTED)
\* ------------------------------------------------------------------------

\* a statement of this step may raise
MayFail == faults < MaxFaults

\* select(Conversation): an object already in the session's identity map is
\* returned as it is (expire_on_commit=False: its loaded attributes are not
\* refreshed); otherwise the committed row is loaded
LoadConv(p, sid) ==
    IF loc[p].exists /\ loc[p].session_id = sid
    THEN loc[p]
    ELSE IF convs[sid].exists
         THEN [convs[sid] EXCEPT !.exists = TRUE] @@ [dirty |-> {}]
         ELSE NoConv

\* attribute assignment: the attribute joins the UPDATE of the next flush
\* only when the value differs from the loaded one
SetAttr(c, attr, v) ==
    IF c[attr] = v THEN c
    ELSE [c EXCEPT ![attr] = v, !.dirty = @ \cup {attr}]

\* rows visible to a SELECT of session p: committed rows and its own
\* flushed, uncommitted inserts
VisibleMessages(p, sid) == MessagesOf(msgs \o pend[p], sid)

\* UPDATE conversations SET <dirty attributes> WHERE id = ...
FlushConv(p) ==
    IF loc[p].exists /\ loc[p].dirty # {}
    THEN [convs EXCEPT ![loc[p].session_id] =
            [f \in DOMAIN @ |-> IF f \in loc[p].dirty THEN loc[p][f] ELSE @[f]]]
    ELSE convs

Clean(c) == IF c.exists THEN [c EXCEPT !.dirty = {}] ELSE c

Raised(err) == [status |-> "database error", error |-> err]
Returned(v) == [status |-> "ok", value |-> v]

\* session.rollback(): pending rows are dropped, loaded objects are expired
Rollback(p) ==
    /\ pend' = [pend EXCEPT ![p] = <<>>]
    /\ loc' = [loc EXCEPT ![p] = NoConv]

\* ------------------------------------------------------------------------
\* OrchestratorAgent.handle_query (orchestrator_agent.py)
\* ------------------------------------------------------------------------

ModelTexts == {"The library opens at 9."}

\* agent_prompts_loader.get_error_message("general_error", ...)
GeneralErrorMessage == "general_error"

\* what one run of the agent can end in
AgentRuns == [ok : {TRUE}, output : ModelTexts] \cup {[ok |-> FALSE, output |-> None]}

\* a variant in which the model exception is handed on to the caller
HandleQueryReraises(run) == IF run.ok THEN run.output ELSE None

\* handle_query: the model output, or the fixed message on any exception
handle_query(run) == IF run.ok THEN run.output ELSE GeneralErrorMessage

\* readings of the system clock, in seconds
Instants == {100, 101}

\* offset of the system's local time from UTC, in seconds
UtcOffset == 3

\* current_dt.strftime(...) / isoformat() of a naive local datetime
LocalTime(t) == [zone |-> "Local", reading |-> t + UtcOffset]

\* utc_time.strftime("%H:%M:%S UTC") / isoformat() of an aware UTC datetime
UtcTime(t) == [zone |-> "UTC", reading |-> t]

\* the instant a rendered time denotes
InstantOf(r) == IF r.zone = "UTC" THEN r.reading ELSE r.reading - UtcOffset

\* generate_datetime_context(): current_dt = datetime.now() is read first
\* and rendered into the local fields; as its tzinfo is not UTC, the clock
\* is read again with datetime.now(timezone.utc) for the utc_* fields; any
\* exception gives the dict of "Unknown" fields
generate_datetime_context(now, utc_now, fails) ==
    IF fails
    THEN [error |-> "Failed to generate datetime context",
          datetime_local |-> "Unknown", date |-> "Unknown", time |-> "Unknown"]
    ELSE [timestamp |-> LocalTime(now), datetime_local |-> LocalTime(now),
          time |-> LocalTime(now), timezone |-> "Local",
          unix_timestamp |-> now,
          utc_time |-> UtcTime(utc_now), utc_timestamp |-> UtcTime(utc_now)]

\* format_datetime_context_for_prompt: the lines of the datetime block
format_datetime_context_for_prompt(datetime_context) ==
    IF "error" \in DOMAIN datetime_context
    THEN <<[line |-> "**Current DateTime:**", error |-> datetime_context.error]>>
    ELSE << [line |-> "**CURRENT DATE & TIME CONTEXT:**"],
            [line |-> "Time", value |-> datetime_context.time],
            [line |-> "Timezone", zone |-> datetime_context.timezone],
            [line |-> "ISO Timestamp", value |-> datetime_context.timestamp],
            [line |-> "Unix Timestamp", unix |-> datetime_context.unix_timestamp],
            [line |-> "UTC Time", value |-> datetime_context.utc_time],
            [line |-> "---"] >>

\* states of the knowledge base: the vector database cannot be opened, the
\* table was never created, or the table exists and holds the ranked hits
\* (none when it is empty) of a search that may raise
KnowledgeBases ==
    {[connects |-> FALSE, table_exists |-> FALSE, hits |-> <<>>, fails |-> FALSE],
     [connects |-> TRUE, table_exists |-> FALSE, hits |-> <<>>, fails |-> FALSE]}
    \cup [connects : {TRUE}, table_exists : {TRUE}, hits : RawHits,
          fails : BOOLEAN]

\* rag_service.is_knowledge_base_loaded(): False on any exception
is_knowledge_base_loaded(kb) == kb.connects /\ kb.table_exists

\* limit=5 in _get_rag_context
RagContextLimit == 5

\* the lines of the knowledge block for the results that reach the threshold
ContextLines(results) ==
    LET kept == {i \in 1..Len(results) :
                    ScoreOf(results[i]) >= similarity_threshold}
        Line(i) == [line |-> "Source", i |-> i, id |-> results[i].id,
                    score |-> ScoreOf(results[i])]
        all == [i \in 1..Len(results) |-> Line(i)]
    IN  SelectSeq(all, LAMBDA l : l.i \in kept)

\* a variant that lets the exception of a failed search escape
RagContextUnguarded(kb) ==
    IF ~is_knowledge_base_loaded(kb) THEN <<>>
    ELSE IF kb.fails THEN <<[line |-> "raise", error |-> "Exception"]>>
    ELSE LET lines == ContextLines(search_knowledge(kb.table_exists, kb.hits,
                                                    RagContextLimit, kb.fails))
         IN  IF lines = <<>> THEN <<>>
             ELSE <<[line |-> "**Knowledge Base Context:**"]>> \o lines
                  \o <<[line |-> "**End of Knowledge Base Context**"]>>

\* _get_rag_context: the empty string (no lines) when the knowledge base is
\* not loaded, when the search returns nothing or nothing relevant, and on
\* any exception; otherwise the header, the sources and the footer
_get_rag_context(kb) ==
    IF ~is_knowledge_base_loaded(kb) THEN <<>>
    ELSE LET lines == ContextLines(search_knowledge(kb.table_exists, kb.hits,
                                                    RagContextLimit, kb.fails))
         IN  IF lines = <<>> THEN <<>>
             ELSE <<[line |-> "**Knowledge Base Context:**"]>> \o lines
                  \o <<[line |-> "**End of Knowledge Base Context**"]>>

\* f"**User Query:** {message}"
UserQuery(message) == <<[line |-> "**User Query:**", message |-> message]>>

\* "\n\n".join(enhanced_message_parts): the datetime block, the knowledge
\* block when there is one, the user query
EnhancedMessage(formatted_datetime_context, rag_context, message) ==
    <<formatted_datetime_context>>
    \o (IF rag_context # <<>> THEN <<rag_context>> ELSE <<>>)
    \o <<UserQuery(message)>>

\* the body of handle_query from _get_rag_context to the return: the
\* context is assembled, agent.run is given the enhanced message and the
\* dependencies, and the model output or the fixed message is returned
QueryRun(message, user_id, kb, now, elapsed, dt_fails, run) ==
    LET rag_context == _get_rag_context(kb)
        datetime_context == generate_datetime_context(now, now + elapsed, dt_fails)
        formatted == format_datetime_context_for_prompt(datetime_context)
    IN  [clock_reads |-> IF dt_fails THEN <<now>> ELSE <<now, now + elapsed>>,
         enhanced_message |-> EnhancedMessage(formatted, rag_context, message),
         deps |-> [user_id |-> user_id, datetime_context |-> datetime_context],
         raised |-> ~run.ok,
         returned |-> handle_query(run)]

\* ------------------------------------------------------------------------
\* NexoraService (nexora_service.py) and the chat endpoint (endpoints/chat.py)
\* ------------------------------------------------------------------------

\* httpx.AsyncClient() created inside `owner` ("chat" or "handle_query")
\* for request id
NewClient(owner, id) == [client |-> <<owner, id>>, owner |-> owner, closes |-> 0]

\* a client the caller passed as http_client
SuppliedClient == [client |-> <<"caller", 0>>, owner |-> "caller", closes |-> 0]

\* `if http_client is None: http_client = httpx.AsyncClient();
\* should_close_client = True`, in chat and in handle_query
Acquire(h, scope, id) == IF h.owner = "none" THEN NewClient(scope, id) ELSE h

aclose(h) == [h EXCEPT !.closes = @ + 1]

\* a variant whose finally block closes nothing
ReleaseNever(h, scope) == h

\* `finally: if should_close_client: await http_client.aclose()`
Release(h, scope) == IF h.owner = scope THEN aclose(h) ELSE h

\* Optional[Usage] arguments: None, or an accumulator already in use
NoUsage == [given |-> FALSE]

UsageArgs == {NoUsage, [given |-> TRUE, requests |-> 1, total_tokens |-> 6]}

\* what a caller of chat or handle_query passes as usage and http_client:
\* nothing, or the accumulator and the client it keeps for its session
CallerArgs ==
    {[usage |-> NoUsage, http_client |-> NoHttp],
     [usage |-> CHOOSE u \in UsageArgs : u.given, http_client |-> SuppliedClient]}

\* `if usage is None: usage = Usage()`
UsageOf(arg) ==
    IF arg.given THEN arg ELSE [given |-> TRUE, requests |-> 0, total_tokens |-> 0]

\* agent.run(enhanced_message, deps=deps, message_history=..., usage=usage):
\* the usage object accumulates the requests and tokens of a run that
\* reached the model
AgentRun(usage, h, r, message) ==
    [ran |-> TRUE, http_client |-> h.client, usage_before |-> usage,
     usage_after |-> IF r.ok
                     THEN [usage EXCEPT !.requests = @ + 1,
                                        !.total_tokens = @ + Len(message)]
                     ELSE usage]

Apology == "I apologize, but I'm experiencing technical difficulties. Please try again later."

HistoryLimit == 20

\* parameters of ConversationService.save_assistant_message (after self)
SaveAssistantParams == {"conversation_id", "content", "agent_data", "metadata"}

SaveAssistantRequired == {"conversation_id", "content", "agent_data"}

\* Python binds a keyword call: every keyword names a parameter and every
\* parameter without a default is given; otherwise TypeError is raised
Binds(kwargs) ==
    /\ kwargs \subseteq SaveAssistantParams
    /\ SaveAssistantRequired \subseteq kwargs

\* keywords of the call after a normal answer (nexora_service.py:162)
AnswerKwargs ==
    {"conversation_id", "content", "agent_name", "agent_used", "intent",
     "success", "usage_data", "response_time_ms"}

\* keywords of the call in the except branch (nexora_service.py:193)
ErrorKwargs ==
    {"conversation_id", "content", "agent_name", "agent_used", "intent",
     "success", "error_message", "response_time_ms"}

\* the dict _process_with_history returns after a normal turn
ChatSuccess(p, response) ==
    [status |-> "returned", response |-> response, success |-> TRUE,
     error |-> None, session_id |-> req[p].session_id]

\* a variant whose failure dict answers with the exception text
ChatFailureLeaks(p, err) ==
    [status |-> "returned", response |-> err, success |-> FALSE,
     error |-> err, session_id |-> req[p].session_id]

\* the dict of both except branches
ChatFailure(p, err) ==
    [status |-> "returned", response |-> Apology, success |-> FALSE,
     error |-> err, session_id |-> req[p].session_id]

\* chat endpoint, step 2: the EnhancedChatResponse built from the dict that
\* NexoraService.chat returned (a direct caller just gets the dict)
EnhancedChatResponse(p, r) ==
    IF req[p].kind = "chat"
    THEN [status |-> 200, response |-> r.response, intent |-> "campus",
          success |-> r.success, error |-> r.error,
          session_id |-> req[p].request_session_id, moderated |-> TRUE,
          content_flagged |-> FALSE, moderation_reason |-> None]
    ELSE NoOut

\* NexoraService.chat returns r and the endpoint answers
ChatReturns(p, r) ==
    /\ result' = [result EXCEPT ![p] = r]
    /\ out' = [out EXCEPT ![p] = EnhancedChatResponse(p, r)]
    /\ http' = [http EXCEPT ![p] = Release(@, "chat")]
    /\ at' = [at EXCEPT ![p] = "done"]

StartCall(p, c, first) ==
    /\ call' = [call EXCEPT ![p] = c]
    /\ pc' = [pc EXCEPT ![p] = first]

NoCallStarted(p) ==
    /\ call' = [call EXCEPT ![p] = NoCall]
    /\ pc' = [pc EXCEPT ![p] = "ret"]

SaveUserCall(p, conv) ==
    [name |-> "save_user_message", conversation_id |-> conv,
     role |-> "user", content |-> req[p].message,
     first_message_content |-> req[p].message,
     id |-> <<req[p].id, "user">>, success |-> None, intent |-> None]

SaveAssistantCall(p, conv, content, success, intent) ==
    [name |-> "save_assistant_message", conversation_id |-> conv,
     role |-> "assistant", content |-> content,
     first_message_content |-> NoneStr,
     id |-> <<req[p].id, "assistant">>, success |-> success, intent |-> intent]

\* the except branch of _process_with_history: a best-effort error turn
\* (an unbound `conversation`, or a call that does not bind, raises inside
\* the inner try and is swallowed), then the fixed failure dict
Except(p, conv, err, events) ==
    IF conv # None /\ Binds(ErrorKwargs)
    THEN /\ StartCall(p, SaveAssistantCall(p, conv, Apology, FALSE, "error"),
                      "save_flush")
         /\ at' = [at EXCEPT ![p] = "after_error_save"]
         /\ result' = [result EXCEPT ![p] = ChatFailure(p, err)]
         /\ log' = [log EXCEPT ![p] = @ \o events \o <<"save_assistant_message">>]
         /\ UNCHANGED <<out, http>>
    ELSE /\ ChatReturns(p, ChatFailure(p, err))
         /\ NoCallStarted(p)
         /\ log' = [log EXCEPT ![p] = @ \o events]

\* after handle_query returned `response`: save_assistant_message(
\* conversation_id=..., content=response, agent_name=..., ...); the call is
\* bound first, and a TypeError goes to the except branch
AfterQuery(p, response) ==
    IF Binds(AnswerKwargs)
    THEN /\ StartCall(p, SaveAssistantCall(p, conversation[p], response, TRUE,
                                           "campus"), "save_flush")
         /\ at' = [at EXCEPT ![p] = "after_save_assistant"]
         /\ log' = [log EXCEPT ![p] = @ \o <<"handle_query", "save_assistant_message">>]
         /\ UNCHANGED <<result, out, http>>
    ELSE Except(p, conversation[p], "TypeError", <<"handle_query">>)

\* a variant that saves the user message without reading the history first
SaveBeforeHistory(p, r) ==
    IF r.status = "ok"
    THEN /\ conversation' = [conversation EXCEPT ![p] = r.value]
         /\ StartCall(p, SaveUserCall(p, r.value), "save_flush")
         /\ at' = [at EXCEPT ![p] = "after_save_user"]
         /\ log' = [log EXCEPT ![p] = Append(@, "save_user_message")]
         /\ UNCHANGED <<hist, result, out, http>>
    ELSE /\ Except(p, conversation[p], r.error, <<"database error">>)
         /\ UNCHANGED <<conversation, hist>>

\* _process_with_history after get_or_create_conversation: the history is
\* read next (message_history is None)
AfterGetOrCreate(p, r) ==
    IF r.status = "ok"
    THEN /\ conversation' = [conversation EXCEPT ![p] = r.value]
         /\ StartCall(p, [name |-> "get_conversation_history",
                          session_id |-> req[p].session_id,
                          limit |-> HistoryLimit], "gh_select")
         /\ at' = [at EXCEPT ![p] = "after_hist"]
         /\ log' = [log EXCEPT ![p] = Append(@, "get_conversation_history")]
         /\ UNCHANGED <<hist, result, out, http>>
    ELSE /\ Except(p, conversation[p], r.error, <<"database error">>)
         /\ UNCHANGED <<conversation, hist>>

\* ... after get_conversation_history: the user message is saved
AfterHistory(p, r) ==
    /\ hist' = [hist EXCEPT ![p] = r.value]
    /\ StartCall(p, SaveUserCall(p, conversation[p]), "save_flush")
    /\ at' = [at EXCEPT ![p] = "after_save_user"]
    /\ log' = [log EXCEPT ![p] =
          IF "swallowed" \in DOMAIN r
          THEN @ \o <<"database error", "save_user_message">>
          ELSE Append(@, "save_user_message")]
    /\ UNCHANGED <<conversation, result, out, http>>

\* ... after save_user_message: handle_query is awaited
AfterSaveUser(p, r) ==
    IF r.status = "ok"
    THEN /\ at' = [at EXCEPT ![p] = "handle_query"]
         /\ NoCallStarted(p)
         /\ UNCHANGED <<conversation, hist, result, out, http, log>>
    ELSE /\ Except(p, conversation[p], r.error, <<"database error">>)
         /\ UNCHANGED <<conversation, hist>>

\* ... after save_assistant_message: the success dict
AfterSaveAssistant(p, r) ==
    IF r.status = "ok"
    THEN /\ ChatReturns(p, ChatSuccess(p, answer[p]))
         /\ NoCallStarted(p)
         /\ UNCHANGED <<conversation, hist, log>>
    ELSE /\ Except(p, conversation[p], r.error, <<"database error">>)
         /\ UNCHANGED <<conversation, hist>>

\* ... after the error turn was saved or failed to: the failure dict
AfterErrorSave(p, r) ==
    /\ ChatReturns(p, result[p])
    /\ NoCallStarted(p)
    /\ UNCHANGED <<conversation, hist, log>>

\* a caller that used ConversationService on its own gets the outcome back
AfterServiceCall(p, r) ==
    /\ at' = [at EXCEPT ![p] = "service"]
    /\ NoCallStarted(p)
    /\ conversation' = [conversation EXCEPT ![p] =
          IF call[p].name = "get_or_create_conversation" /\ r.status = "ok"
          THEN r.value ELSE @]
    /\ hist' = [hist EXCEPT ![p] =
          IF call[p].name = "get_conversation_history" THEN r.value ELSE @]
    /\ UNCHANGED <<result, out, http, log>>

\* the coroutine that awaited a ConversationService call resumes with its
\* outcome r and runs on to its next await or to its end
Return(p, r) ==
    /\ res' = [res EXCEPT ![p] = r]
    /\ CASE at[p] = "after_goc"            -> AfterGetOrCreate(p, r)
         [] at[p] = "after_hist"           -> AfterHistory(p, r)
         [] at[p] = "after_save_user"      -> AfterSaveUser(p, r)
         [] at[p] = "after_save_assistant" -> AfterSaveAssistant(p, r)
         [] at[p] = "after_error_save"     -> AfterErrorSave(p, r)
         [] at[p] = "service_call"         -> AfterServiceCall(p, r)

\* the variables a ConversationService step leaves alone besides the store
\* and the session: Return sets pc, call, res, at, conversation, hist,
\* result, out and log
rest == <<nreq, has_key, knowledge, fn, req, verdict, answer, agent_run>>

\* ------------------------------------------------------------------------
\* ConversationService (conversation_service.py), one action per await
\* ------------------------------------------------------------------------

\* a statement raises; the except branch rolls back and re-raises
Fault(p, err) ==
    /\ MayFail
    /\ faults' = faults + 1
    /\ Rollback(p)
    /\ Return(p, Raised(err))
    /\ UNCHANGED <<store, rest>>

\* get_or_create_conversation: select(Conversation) by session_id; an
\* existing conversation gets last_activity = utcnow(), a missing one is
\* constructed and added to the session
GocSelect(p) ==
    /\ pc[p] = "goc_select"
    /\ \/ Fault(p, "DBAPIError")
       \/ LET c == LoadConv(p, call[p].session_id)
          IN  /\ IF c.exists
                 THEN /\ loc' = [loc EXCEPT ![p] = SetAttr(c, "last_activity", clock)]
                      /\ clock' = clock + 1
                      /\ pc' = [pc EXCEPT ![p] = "goc_commit"]
                 ELSE /\ pc' = [pc EXCEPT ![p] = "goc_insert"]
                      /\ UNCHANGED <<loc, clock>>
              /\ UNCHANGED <<convs, msgs, faults, pend, call, res, at,
                             conversation, hist, result, out, http, log, rest>>

\* ... existing conversation: commit() and return it
GocCommit(p) ==
    /\ pc[p] = "goc_commit"
    /\ \/ Fault(p, "DBAPIError")
       \/ /\ convs' = FlushConv(p)
          /\ loc' = [loc EXCEPT ![p] = Clean(@)]
          /\ Return(p, Returned(loc[p].session_id))
          /\ UNCHANGED <<msgs, clock, faults, pend, rest>>

\* a variant whose INSERT is not held back by a unique session_id
GocInsertUnchecked(p) ==
    /\ pc[p] = "goc_insert"
    /\ \/ Fault(p, "DBAPIError")
       \/ /\ LET c == NewConversation(<<"uuid", req[p].id>>, call[p].session_id,
                                     call[p].user_id, clock)
             IN  /\ convs' = [convs EXCEPT ![call[p].session_id] = c]
                 /\ loc' = [loc EXCEPT ![p] = c @@ [dirty |-> {}]]
          /\ clock' = clock + 1
          /\ Return(p, Returned(call[p].session_id))
          /\ UNCHANGED <<msgs, faults, pend, rest>>

\* ... new conversation: commit() inserts the row (session_id is unique, a
\* row committed meanwhile makes the INSERT fail) and refresh() reloads it
GocInsert(p) ==
    /\ pc[p] = "goc_insert"
    /\ \/ Fault(p, "DBAPIError")
       \/ /\ convs[call[p].session_id].exists
          /\ Rollback(p)
          /\ Return(p, Raised("IntegrityError"))
          /\ UNCHANGED <<store, faults, rest>>
       \/ /\ ~convs[call[p].session_id].exists
          /\ LET c == NewConversation(<<"uuid", req[p].id>>, call[p].session_id,
                                     call[p].user_id, clock)
             IN  /\ convs' = [convs EXCEPT ![call[p].session_id] = c]
                 /\ loc' = [loc EXCEPT ![p] = c @@ [dirty |-> {}]]
          /\ clock' = clock + 1
          /\ Return(p, Returned(call[p].session_id))
          /\ UNCHANGED <<msgs, faults, pend, rest>>

\* Message.to_model_message: a ModelRequest for a user row, a ModelResponse
\* otherwise, carrying the content (id kept to tell the rows apart)
to_model_message(m) ==
    [part |-> IF m.role = "user" THEN "UserPromptPart" ELSE "TextPart",
     content |-> m.content, id |-> m.id]

\* ORDER BY created_at DESC
RECURSIVE DescByCreated(_)
DescByCreated(S) ==
    IF S = {} THEN <<>>
    ELSE LET m == CHOOSE x \in S : \A y \in S : x.created_at >= y.created_at
         IN  <<m>> \o DescByCreated(S \ {m})

Reverse(s) == [i \in 1..Len(s) |-> s[Len(s) + 1 - i]]

Range(s) == {s[i] : i \in 1..Len(s)}

\* a variant that pages from the oldest row on
HistoryOldestPage(rows, limit) ==
    LET desc == DescByCreated(Range(rows))
        asc == Reverse(desc)
        page == SubSeq(asc, 1, Min(limit, Len(asc)))
    IN  [i \in 1..Len(page) |-> to_model_message(page[i])]

\* the rows get_conversation_history returns for a conversation: the `limit`
\* newest ones, reversed into chronological order
HistoryOf(rows, limit) ==
    LET desc == DescByCreated(Range(rows))
        page == SubSeq(desc, 1, Min(limit, Len(desc)))
        chron == Reverse(page)
    IN  [i \in 1..Len(chron) |-> to_model_message(chron[i])]

\* get_conversation_history: any exception is swallowed and yields []
GetHistory(p) ==
    /\ pc[p] = "gh_select"
    /\ \/ /\ MayFail
          /\ faults' = faults + 1
          /\ Return(p, [status |-> "ok", value |-> <<>>, swallowed |-> TRUE])
          /\ UNCHANGED loc
       \/ LET c == LoadConv(p, call[p].session_id)
          IN  /\ Return(p, Returned(
                    IF c.exists
                    THEN HistoryOf(VisibleMessages(p, call[p].session_id),
                                   call[p].limit)
                    ELSE <<>>))
              /\ loc' = [loc EXCEPT ![p] = c]
              /\ UNCHANGED faults
    /\ UNCHANGED <<store, pend, rest>>

\* a variant that sets the title from every message content it is given
RetitleAlways(c, count, first_message_content, now) ==
    LET c1 == SetAttr(c, "total_messages", count)
        c2 == IF ~Falsy(first_message_content)
              THEN SetAttr(c1, "title", MakeTitle(first_message_content))
              ELSE c1
    IN  SetAttr(c2, "last_activity", now)

\* _update_conversation_metadata on the session's Conversation object:
\* total_messages = count(Message), title from the first message content if
\* the title is not set, last_activity = utcnow()
_update_conversation_metadata(c, count, first_message_content, now) ==
    LET c1 == SetAttr(c, "total_messages", count)
        c2 == IF Falsy(c1.title) /\ ~Falsy(first_message_content)
              THEN SetAttr(c1, "title", MakeTitle(first_message_content))
              ELSE c1
    IN  SetAttr(c2, "last_activity", now)

\* save_user_message / save_assistant_message up to the commit inside
\* _update_conversation_metadata: db.add(message); the SELECTs autoflush
\* the INSERT and count the rows this transaction can see
SaveFlush(p) ==
    /\ pc[p] = "save_flush"
    /\ \/ Fault(p, "DBAPIError")
       \/ /\ ~LoadConv(p, call[p].conversation_id).exists
          /\ Rollback(p)
          /\ Return(p, Raised("IntegrityError"))
          /\ UNCHANGED <<store, faults, rest>>
       \/ LET sid == call[p].conversation_id
              c == LoadConv(p, sid)
              m == Message(sid, call[p].role, call[p].content, call[p].id,
                           call[p].success, call[p].intent, clock)
              rows == Append(pend[p], m)
          IN  /\ c.exists
              /\ pend' = [pend EXCEPT ![p] = rows]
              /\ loc' = [loc EXCEPT ![p] =
                    _update_conversation_metadata(
                        c, Len(MessagesOf(msgs \o rows, sid)),
                        call[p].first_message_content, clock + 1)]
              /\ clock' = clock + 2
              /\ pc' = [pc EXCEPT ![p] = "save_commit"]
              /\ UNCHANGED <<convs, msgs, faults, call, res, at, conversation,
                             hist, result, out, http, log, rest>>

\* ... commit(): the UPDATE of the conversation and the INSERT become
\* visible together; then the second commit() and refresh(message), whose
\* failure raises although the rows are committed
SaveCommit(p) ==
    /\ pc[p] = "save_commit"
    /\ \/ Fault(p, "DBAPIError")
       \/ /\ convs' = FlushConv(p)
          /\ msgs' = msgs \o pend[p]
          /\ pend' = [pend EXCEPT ![p] = <<>>]
          /\ \/ /\ loc' = [loc EXCEPT ![p] = Clean(@)]
                /\ Return(p, Returned(call[p].id))
                /\ UNCHANGED faults
             \/ /\ MayFail
                /\ faults' = faults + 1
                /\ loc' = [loc EXCEPT ![p] = NoConv]
                /\ Return(p, Raised("DBAPIError"))
          /\ UNCHANGED <<clock, rest>>

ServiceStep(p) ==
    \/ GocSelect(p)
    \/ GocCommit(p)
    \/ GocInsert(p)
    \/ GetHistory(p)
    \/ SaveFlush(p)
    \/ SaveCommit(p)

\* ------------------------------------------------------------------------
\* Requests
\* ------------------------------------------------------------------------

\* settings.API_KEY
API_KEY == "poc-key-123"

\* what a client can present: the key, another bearer token, or no
\* Authorization header
Credentials == {API_KEY, "wrong-key", None}

\* Depends(verify_api_key): HTTPBearer answers 403 without a bearer token,
\* verify_api_key raises 401 for a token other than settings.API_KEY
verify_api_key(credentials) ==
    IF credentials = None THEN 403
    ELSE IF credentials # API_KEY THEN 401
    ELSE 200

\* the routes registered on the application and whether they depend on
\* verify_api_key
Endpoints ==
    [chat |-> TRUE, moderate |-> TRUE, conversation_summary |-> TRUE,
     conversation_history |-> TRUE, deactivate_conversation |-> TRUE,
     health |-> FALSE, voice_chat |-> FALSE, voice_status |-> FALSE,
     root |-> FALSE]

\* the answer of a route to the credentials presented, before its handler
Admission(route, credentials) ==
    IF Endpoints[route] THEN verify_api_key(credentials) ELSE 200

\* POST /chat: the dependencies run first and a request without the API key
\* is answered 401/403; then moderate_content; a flagged message is answered at once
\* with the moderation response; otherwise NexoraService.chat is called with
\* the endpoint's database session and _process_with_history starts with
\* get_or_create_conversation
ChatRequestFrom(p, users, sessions) ==
    /\ at[p] = "idle"
    /\ nreq < MaxReqs
    /\ nreq' = nreq + 1
    /\ \E m \in Messages, session_id \in sessions, uid \in users,
          cred \in Credentials,
          api \in (IF has_key THEN ApiOutcomes ELSE {"not called"}) :
         LET admitted == Admission("chat", cred) = 200
             \* NexoraService.chat: `if session_id is None: str(uuid4())`
             sid == IF session_id = None THEN uuid4(nreq + 1) ELSE session_id
             v == IF admitted THEN moderate_content(m, has_key, api)
                  ELSE NoVerdict
         IN  /\ req' = [req EXCEPT ![p] =
                    [kind |-> "chat", message |-> m, session_id |-> sid,
                     request_session_id |-> session_id,
                     user_id |-> uid, id |-> nreq + 1,
                     api |-> IF admitted THEN api ELSE "not called",
                     credentials |-> cred, usage |-> NoUsage]]
             /\ verdict' = [verdict EXCEPT ![p] = v]
             /\ IF ~admitted
                THEN /\ out' = [out EXCEPT ![p] =
                           [status |-> Admission("chat", cred)]]
                     /\ at' = [at EXCEPT ![p] = "done"]
                     /\ UNCHANGED <<pc, call, log, http>>
                ELSE IF v.flagged
                THEN /\ out' = [out EXCEPT ![p] =
                           [status |-> 200,
                            response |-> get_moderation_response_message(v),
                            intent |-> "moderation", success |-> TRUE,
                            error |-> None, session_id |-> session_id,
                            moderated |-> TRUE, content_flagged |-> TRUE,
                            moderation_reason |-> v.reason]]
                     /\ at' = [at EXCEPT ![p] = "done"]
                     /\ log' = [log EXCEPT ![p] = <<"moderate_content">>]
                     /\ UNCHANGED <<pc, call, http>>
                ELSE /\ StartCall(p, [name |-> "get_or_create_conversation",
                                      session_id |-> sid, user_id |-> uid],
                                  "goc_select")
                     /\ at' = [at EXCEPT ![p] = "after_goc"]
                     /\ log' = [log EXCEPT ![p] =
                           <<"moderate_content", "NexoraService.chat",
                             "get_or_create_conversation">>]
                     /\ http' = [http EXCEPT ![p] =
                           Acquire(NoHttp, "chat", nreq + 1)]
                     /\ UNCHANGED out
    /\ UNCHANGED <<store, faults, has_key, knowledge, fn, loc, pend, res, conversation, hist,
                   answer, agent_run, result>>

\* POST /chat as the clients of one user send it, each naming the session
ChatRequest(p) == ChatRequestFrom(p, {"u1"}, SessionIds)

\* NexoraService.chat called without a db_session, with or without a
\* usage and an http_client: it acquires a session from
\* get_database_session(); a failure there is caught by chat's own except
DirectChat(p) ==
    /\ at[p] = "idle"
    /\ nreq < MaxReqs
    /\ nreq' = nreq + 1
    /\ \E m \in Messages, sid \in SessionIds, args \in CallerArgs :
         /\ req' = [req EXCEPT ![p] =
                [kind |-> "direct", message |-> m, session_id |-> sid,
                 user_id |-> "u1", id |-> nreq + 1, usage |-> args.usage]]
         /\ \/ /\ MayFail
               /\ faults' = faults + 1
               /\ http' = [http EXCEPT ![p] =
                     Release(Acquire(args.http_client, "chat", nreq + 1),
                             "chat")]
               /\ result' = [result EXCEPT ![p] =
                      [status |-> "returned", response |-> Apology,
                       success |-> FALSE, error |-> "RuntimeError",
                       session_id |-> sid]]
               /\ at' = [at EXCEPT ![p] = "done"]
               /\ log' = [log EXCEPT ![p] = <<"NexoraService.chat", "database error">>]
               /\ UNCHANGED <<pc, call>>
            \/ /\ StartCall(p, [name |-> "get_or_create_conversation",
                                session_id |-> sid, user_id |-> "u1"],
                            "goc_select")
               /\ at' = [at EXCEPT ![p] = "after_goc"]
               /\ log' = [log EXCEPT ![p] =
                     <<"NexoraService.chat", "get_or_create_conversation">>]
               /\ http' = [http EXCEPT ![p] =
                     Acquire(args.http_client, "chat", nreq + 1)]
               /\ UNCHANGED <<faults, result>>
    /\ UNCHANGED <<store, has_key, knowledge, fn, loc, pend, res, conversation, hist, verdict,
                   answer, agent_run, out>>

\* await self.orchestrator.handle_query(message, user_id, message_history,
\* usage, http_client), and the code after it up to the next await
HandleQuery(p) ==
    /\ at[p] = "handle_query"
    /\ \E run \in AgentRuns :
         /\ answer' = [answer EXCEPT ![p] = handle_query(run)]
         /\ agent_run' = [agent_run EXCEPT ![p] =
               AgentRun(UsageOf(req[p].usage),
                        Acquire(http[p], "handle_query", req[p].id),
                        run, req[p].message)]
         /\ AfterQuery(p, handle_query(run))
    /\ res' = [res EXCEPT ![p] =
          IF Binds(AnswerKwargs) THEN @ ELSE Raised("TypeError")]
    /\ UNCHANGED <<store, env, loc, pend, req, conversation, hist, verdict>>

\* orchestrator_agent.handle_query awaited by a caller of its own, with or
\* without a usage and an http_client: the client is created when none is
\* given, handed to the tools through deps, and closed in the finally block
\* only when it was created here
DirectQuery(p) ==
    /\ at[p] = "idle"
    /\ nreq < MaxReqs
    /\ nreq' = nreq + 1
    /\ \E m \in Messages, args \in CallerArgs, run \in AgentRuns :
         LET client == Acquire(args.http_client, "handle_query", nreq + 1)
         IN  /\ req' = [req EXCEPT ![p] =
                    [kind |-> "query", message |-> m, session_id |-> None,
                     user_id |-> "u1", id |-> nreq + 1, usage |-> args.usage]]
             /\ answer' = [answer EXCEPT ![p] = handle_query(run)]
             /\ agent_run' = [agent_run EXCEPT ![p] =
                   AgentRun(UsageOf(args.usage), client, run, m)]
             /\ http' = [http EXCEPT ![p] = Release(client, "handle_query")]
    /\ log' = [log EXCEPT ![p] = <<"handle_query">>]
    /\ at' = [at EXCEPT ![p] = "done"]
    /\ UNCHANGED <<store, faults, has_key, knowledge, fn, sess, conversation, hist, verdict,
                   result, out>>

\* ------------------------------------------------------------------------
\* Voice WebSocket (endpoints/voice.py, voice_service.py)
\* ------------------------------------------------------------------------

\* handle_audio_chunk -> process_voice_message: transcribe_audio gives the
\* text of the audio, or "" for silence or a failed transcription, in which
\* case nothing else happens; otherwise generate_response calls
\* orchestrator_agent.handle_query(message=text, user_id=client_id)
VoiceMessage(p) ==
    /\ at[p] = "idle"
    /\ nreq < MaxReqs
    /\ nreq' = nreq + 1
    /\ \E text \in Messages \cup {<<>>}, cred \in Credentials :
         /\ Admission("voice_chat", cred) = 200
         /\ req' = [req EXCEPT ![p] =
                [kind |-> "voice", message |-> text, session_id |-> None,
                 user_id |-> "u1", id |-> nreq + 1, credentials |-> cred,
                 usage |-> NoUsage]]
         /\ IF text = <<>>
            THEN /\ out' = [out EXCEPT ![p] =
                       [status |-> "voice", transcription |-> <<>>,
                        response |-> None]]
                 /\ UNCHANGED <<answer, agent_run, http, log>>
            ELSE /\ \E run \in AgentRuns :
                      /\ answer' = [answer EXCEPT ![p] = handle_query(run)]
                      /\ agent_run' = [agent_run EXCEPT ![p] =
                            AgentRun(UsageOf(NoUsage),
                                     Acquire(NoHttp, "handle_query", nreq + 1),
                                     run, text)]
                      /\ out' = [out EXCEPT ![p] =
                            [status |-> "voice", transcription |-> text,
                             response |-> handle_query(run)]]
                 /\ http' = [http EXCEPT ![p] =
                       Release(Acquire(NoHttp, "handle_query", nreq + 1),
                               "handle_query")]
                 /\ log' = [log EXCEPT ![p] = <<"handle_query">>]
    /\ at' = [at EXCEPT ![p] = "done"]
    /\ UNCHANGED <<store, faults, has_key, knowledge, fn, sess, conversation, hist, verdict,
                   result>>

\* the request is over: the task ends and its database session is closed
Finish(p) ==
    /\ at[p] = "done"
    /\ at' = [at EXCEPT ![p] = "idle"]
    /\ pc' = [pc EXCEPT ![p] = "idle"]
    /\ req' = [req EXCEPT ![p] = NoReq]
    /\ loc' = [loc EXCEPT ![p] = NoConv]
    /\ pend' = [pend EXCEPT ![p] = <<>>]
    /\ call' = [call EXCEPT ![p] = NoCall]
    /\ res' = [res EXCEPT ![p] = NoRes]
    /\ conversation' = [conversation EXCEPT ![p] = None]
    /\ hist' = [hist EXCEPT ![p] = <<>>]
    /\ verdict' = [verdict EXCEPT ![p] = NoVerdict]
    /\ answer' = [answer EXCEPT ![p] = None]
    /\ agent_run' = [agent_run EXCEPT ![p] = NoRun]
    /\ http' = [http EXCEPT ![p] = NoHttp]
    /\ result' = [result EXCEPT ![p] = NoResult]
    /\ out' = [out EXCEPT ![p] = NoOut]
    /\ log' = [log EXCEPT ![p] = <<>>]
    /\ UNCHANGED <<store, env>>

\* ------------------------------------------------------------------------
\* ConversationService used on its own, with one database session
\* ------------------------------------------------------------------------

\* a caller opens a database session and awaits get_or_create_conversation
ServiceOpen(p) ==
    /\ at[p] = "idle"
    /\ nreq < MaxReqs
    /\ nreq' = nreq + 1
    /\ \E sid \in SessionIds :
         /\ req' = [req EXCEPT ![p] =
                [kind |-> "service", message |-> <<>>, session_id |-> sid,
                 user_id |-> "u1", id |-> nreq + 1, calls |-> 1]]
         /\ StartCall(p, [name |-> "get_or_create_conversation",
                          session_id |-> sid, user_id |-> "u1"], "goc_select")
    /\ at' = [at EXCEPT ![p] = "service_call"]
    /\ UNCHANGED <<store, faults, has_key, knowledge, fn, loc, pend, res, conversation, hist,
                   verdict, answer, agent_run, result, out, http, log>>

\* the saves a caller holding a conversation id can await next
SaveCalls(p) ==
    IF conversation[p] = None \/ Len(msgs) >= MaxSaved THEN {}
    ELSE {[name |-> "save_user_message",
           conversation_id |-> conversation[p], role |-> "user",
           content |-> c, first_message_content |-> c,
           id |-> <<req[p].id, req[p].calls>>, success |-> None,
           intent |-> None] : c \in Contents}
         \cup
         {[name |-> "save_assistant_message",
           conversation_id |-> conversation[p], role |-> "assistant",
           content |-> c, first_message_content |-> NoneStr,
           id |-> <<req[p].id, req[p].calls>>, success |-> TRUE,
           intent |-> "campus"] : c \in ModelContents}

\* ... and awaits save_user_message or save_assistant_message
ServiceCall(p) ==
    /\ at[p] = "service"
    /\ \E c \in SaveCalls(p) : StartCall(p, c, "save_flush")
    /\ req' = [req EXCEPT ![p].calls = @ + 1]
    /\ at' = [at EXCEPT ![p] = "service_call"]
    /\ UNCHANGED <<store, env, loc, pend, res, conversation, hist, verdict,
                   answer, agent_run, result, out, http, log>>

\* ... and closes its database session
ServiceClose(p) ==
    /\ at[p] = "service"
    /\ at' = [at EXCEPT ![p] = "done"]
    /\ UNCHANGED <<store, env, sess, req, conversation, hist, verdict, answer, agent_run,
                   result, out, http, log>>

\* limits a caller of get_conversation_history passes
HistoryLimits == {1, 2}

\* a caller opens a database session and awaits get_conversation_history
HistoryOpen(p) ==
    /\ at[p] = "idle"
    /\ nreq < MaxReqs
    /\ nreq' = nreq + 1
    /\ \E sid \in SessionIds, limit \in HistoryLimits :
         /\ req' = [req EXCEPT ![p] =
                [kind |-> "history", message |-> <<>>, session_id |-> sid,
                 user_id |-> "u1", id |-> nreq + 1, limit |-> limit]]
         /\ StartCall(p, [name |-> "get_conversation_history",
                          session_id |-> sid, limit |-> limit], "gh_select")
    /\ at' = [at EXCEPT ![p] = "service_call"]
    /\ UNCHANGED <<store, faults, has_key, knowledge, fn, loc, pend, res, conversation, hist,
                   verdict, answer, agent_run, result, out, http, log>>

\* no other task is between opening and closing its database session
Alone(p) == \A q \in Procs \ {p} : at[q] = "idle"

SeqOpen(p) == Alone(p) /\ ServiceOpen(p)

SeqHistory(p) == Alone(p) /\ HistoryOpen(p)

\* ------------------------------------------------------------------------
\* Sessions of several users, one request at a time
\* ------------------------------------------------------------------------

\* POST /chat from any of the users, naming a session or none
SessionChat(p) ==
    Alone(p) /\ ChatRequestFrom(p, ChatUsers, SessionIds \cup {None})

\* DELETE /conversations/{session_id}: deactivate_conversation selects the
\* conversation by session_id, sets is_active = False and last_activity =
\* utcnow() and commits; not found is answered 404, an exception is rolled
\* back, reported as not found by the service and answered 404 as well.
\* A client deletes a conversation once: repeating the call on an inactive
\* conversation only advances last_activity again
Deactivate(p) ==
    /\ Alone(p)
    /\ at[p] = "idle"
    /\ \E sid \in StoredSessionIds, cred \in Credentials :
         LET admitted == Admission("deactivate_conversation", cred) = 200
         IN  /\ req' = [req EXCEPT ![p] =
                    [kind |-> "deactivate", session_id |-> sid,
                     credentials |-> cred]]
             /\ \/ /\ ~admitted
                   /\ out' = [out EXCEPT ![p] =
                         [status |-> Admission("deactivate_conversation", cred)]]
                   /\ UNCHANGED <<store, faults>>
                \/ /\ admitted /\ convs[sid].exists /\ convs[sid].is_active
                   /\ convs' = [convs EXCEPT ![sid].is_active = FALSE,
                                             ![sid].last_activity = clock]
                   /\ clock' = clock + 1
                   /\ out' = [out EXCEPT ![p] =
                         [status |-> 200, deactivated |-> sid]]
                   /\ UNCHANGED <<msgs, faults>>
                \/ /\ admitted /\ ~convs[sid].exists
                   /\ out' = [out EXCEPT ![p] = [status |-> 404]]
                   /\ UNCHANGED <<store, faults>>
                \/ /\ admitted /\ MayFail
                   /\ convs[sid].exists => convs[sid].is_active
                   /\ faults' = faults + 1
                   /\ out' = [out EXCEPT ![p] = [status |-> 404]]
                   /\ UNCHANGED store
    /\ at' = [at EXCEPT ![p] = "done"]
    /\ UNCHANGED <<nreq, has_key, knowledge, fn, sess, conversation, hist, verdict, answer,
                   agent_run, result, http, log>>

NextSessions ==
    \E p \in Procs :
        \/ SessionChat(p)
        \/ Deactivate(p)
        \/ ServiceStep(p)
        \/ HandleQuery(p)
        \/ Finish(p)

SpecSessions == Init /\ [][NextSessions]_vars

\* ------------------------------------------------------------------------
\* Tool calls
\* ------------------------------------------------------------------------

Applied(name, outcome, query, user_id, returned) ==
    fn' = [name |-> name, outcome |-> outcome, query |-> query,
           user_id |-> user_id, result |-> returned]

HttpRequest ==
    /\ fn = NoFn
    /\ \E m \in Methods, o \in HttpOutcomes :
         Applied("handle_http_request", o, m, None, handle_http_request(m, o))
    /\ UNCHANGED <<store, nreq, faults, has_key, knowledge, sess, task>>

FetchCall ==
    /\ fn = NoFn
    /\ \E o \in HttpOutcomes :
         \/ Applied("fetch_bus_routes", o, None, None, fetch_bus_routes(o))
         \/ Applied("fetch_events", o, None, None, fetch_events(o))
         \/ Applied("fetch_departments", o, None, None, fetch_departments(o))
         \/ Applied("fetch_cafeteria_menu", o, None, None, fetch_cafeteria_menu(o))
    /\ UNCHANGED <<store, nreq, faults, has_key, knowledge, sess, task>>

SearchCall ==
    /\ fn = NoFn
    /\ \E o \in HttpOutcomes, q \in Queries :
         \/ Applied("search_bus_routes", o, q, None, search_bus_routes(o, q))
         \/ Applied("search_events", o, q, None, search_events(o, q))
         \/ Applied("search_departments", o, q, None, search_departments(o, q))
         \/ Applied("search_menu_items", o, q, None, search_menu_items(o, q))
    /\ UNCHANGED <<store, nreq, faults, has_key, knowledge, sess, task>>

\* the standalone forms (BusTools, EventTools, DepartmentTools,
\* CafeteriaTools), called without an agent
DirectSearchCall ==
    /\ fn = NoFn
    /\ \E o \in HttpOutcomes, q \in Queries :
         \/ Applied("search_bus_routes_direct", o, q, None,
                    search_bus_routes_direct(o, q))
         \/ Applied("search_events_direct", o, q, None,
                    search_events_direct(o, q))
         \/ Applied("search_departments_direct", o, q, None,
                    search_departments_direct(o, q))
         \/ Applied("search_menu_items_direct", o, q, None,
                    search_menu_items_direct(o, q))
    /\ UNCHANGED <<store, nreq, faults, has_key, knowledge, sess, task>>

UserCall ==
    /\ fn = NoFn
    /\ \E o \in HttpOutcomes, u \in UserIds :
         \/ Applied("get_user_exam_results", o, None, u, get_user_exam_results(u, o))
         \/ Applied("get_user_data", o, None, u, get_user_data(u, o))
    /\ UNCHANGED <<store, nreq, faults, has_key, knowledge, sess, task>>

\* ------------------------------------------------------------------------
\* Knowledge search
\* ------------------------------------------------------------------------

SearchKnowledge ==
    /\ fn = NoFn
    /\ \E table_exists \in BOOLEAN, hits \in RawHits, limit \in Limits,
          fails \in BOOLEAN :
         fn' = [name |-> "search_knowledge", table_exists |-> table_exists,
                hits |-> hits, limit |-> limit, fails |-> fails,
                result |-> search_knowledge(table_exists, hits, limit, fails)]
    /\ UNCHANGED <<store, nreq, faults, has_key, knowledge, sess, task>>

\* ------------------------------------------------------------------------
\* One query of the orchestrator
\* ------------------------------------------------------------------------

\* seconds that can pass between two successive readings of the clock
Elapsed == {0, 1}

QueryCall ==
    /\ fn = NoFn
    /\ \E message \in Messages, user_id \in UserIds, kb \in KnowledgeBases,
          now \in Instants, elapsed \in Elapsed, dt_fails \in BOOLEAN,
          run \in AgentRuns :
         fn' = [name |-> "handle_query", message |-> message, kb |-> kb,
                run |-> run]
               @@ QueryRun(message, user_id, kb, now, elapsed, dt_fails, run)
    /\ UNCHANGED <<store, nreq, faults, has_key, knowledge, sess, task>>

NextSearch == SearchCall \/ DirectSearchCall

SpecSearch == Init /\ [][NextSearch]_vars

NextQuery == QueryCall

SpecQuery == Init /\ [][NextQuery]_vars

\* ------------------------------------------------------------------------
\* Knowledge-base load
\* ------------------------------------------------------------------------

ChunkText ==
    /\ fn = NoFn
    /\ \E text \in Texts, chunk_size \in ChunkSizes, fails \in BOOLEAN :
         fn' = [name |-> "chunk_text", text |-> text, chunk_size |-> chunk_size,
                fails |-> fails, result |-> chunk_text(text, chunk_size, fails)]
    /\ UNCHANGED <<store, nreq, faults, has_key, knowledge, sess, task>>

ProcessMarkdownFiles ==
    /\ fn = NoFn
    /\ \E md_files \in Directories, chunk_size \in ChunkSizes, fails \in BOOLEAN :
         fn' = [name |-> "_process_markdown_files", md_files |-> md_files,
                chunk_size |-> chunk_size, fails |-> fails,
                result |-> _process_markdown_files(md_files, chunk_size, fails)]
    /\ UNCHANGED <<store, nreq, faults, has_key, knowledge, sess, task>>

\* ------------------------------------------------------------------------
\* The LanceDB table over successive loads
\* ------------------------------------------------------------------------

\* the table of the service: absent, or the rows added to it so far
NoTable == [exists |-> FALSE, rows |-> <<>>]

\* settings.KNOWLEDGE_BASE_PATH as the service finds it: missing, without
\* Markdown files, or one of Directories
KnowledgeBasePaths ==
    {[exists |-> FALSE, md_files |-> <<>>], [exists |-> TRUE, md_files |-> <<>>]}
    \cup {[exists |-> TRUE, md_files |-> d] : d \in Directories}

\* the statement of a load that raises, if any: lancedb.connect (or
\* table_names / open_table), db.create_table, table.create_fts_index,
\* table.add
LoadFailures == {"none", "connect", "create_table", "create_fts_index", "add"}

batch_size == 100

\* get_or_create_table: an existing table is opened unless overwrite is
\* set; otherwise create_table makes an empty table, replacing an existing
\* one in mode "overwrite", and the full-text index is built on it. Every
\* exception is logged and raised again
get_or_create_table(table, overwrite, failure) ==
    IF failure = "connect" THEN [table |-> table, raised |-> TRUE]
    ELSE IF table.exists /\ ~overwrite THEN [table |-> table, raised |-> FALSE]
    ELSE IF failure = "create_table" THEN [table |-> table, raised |-> TRUE]
    ELSE [table |-> [exists |-> TRUE, rows |-> <<>>],
          raised |-> failure = "create_fts_index"]

\* _add_documents_to_table: table.add of one batch of batch_size documents
\* after the other; `failing` numbers the batch whose table.add raises
\* (0: none), the batches added before it stay in the table
RECURSIVE _add_documents_to_table(_, _, _)
_add_documents_to_table(rows, documents, failing) ==
    IF documents = <<>> THEN [rows |-> rows, raised |-> FALSE]
    ELSE IF failing = 1 THEN [rows |-> rows, raised |-> TRUE]
    ELSE _add_documents_to_table(
             rows \o Prefix(documents, batch_size),
             SubSeq(documents, Min(batch_size, Len(documents)) + 1, Len(documents)),
             failing - 1)

\* load_knowledge_base: false for a missing directory or one without
\* Markdown files; otherwise the table is obtained first, then the files
\* are processed and their documents added; true only when documents were
\* added, false when there were none or when any statement raised
load_knowledge_base(path, table, chunk_size, overwrite, failure) ==
    IF ~path.exists \/ path.md_files = <<>>
    THEN [table |-> table, returned |-> FALSE]
    ELSE LET got == get_or_create_table(table, overwrite, failure)
             all_documents ==
                 _process_markdown_files(path.md_files, chunk_size, FALSE)
             added == _add_documents_to_table(
                          got.table.rows, all_documents,
                          IF failure = "add" THEN 1 ELSE 0)
         IN  IF got.raised THEN [table |-> got.table, returned |-> FALSE]
             ELSE IF all_documents # <<>>
             THEN [table |-> [exists |-> TRUE, rows |-> added.rows],
                   returned |-> ~added.raised]
             ELSE [table |-> got.table, returned |-> FALSE]

\* RAGService.__init__: the paths and the chunk size of the settings
RagServiceInit ==
    /\ knowledge = NoKnowledge
    /\ \E path \in KnowledgeBasePaths, chunk_size \in ChunkSizes :
         knowledge' = [constructed |-> TRUE, knowledge_base_path |-> path,
                       chunk_size |-> chunk_size, table |-> NoTable,
                       loads |-> 0]
    /\ UNCHANGED <<store, nreq, faults, has_key, fn, sess, task>>

\* one call of load_knowledge_base on the table the earlier calls left
LoadKnowledgeBase ==
    /\ knowledge.constructed
    /\ knowledge.loads < MaxReqs
    /\ \E overwrite \in BOOLEAN, failure \in LoadFailures :
         LET load == load_knowledge_base(knowledge.knowledge_base_path,
                                         knowledge.table, knowledge.chunk_size,
                                         overwrite, failure)
         IN  /\ knowledge' = [knowledge EXCEPT !.table = load.table,
                                               !.loads = @ + 1]
             /\ fn' = [name |-> "load_knowledge_base", overwrite |-> overwrite,
                       failure |-> failure, returned |-> load.returned]
    /\ UNCHANGED <<store, nreq, faults, has_key, sess, task>>

NextLoad == RagServiceInit \/ LoadKnowledgeBase

SpecLoad == Init /\ [][NextLoad]_vars

Next ==
    \E p \in Procs :
        \/ ChatRequest(p)
        \/ VoiceMessage(p)
        \/ ServiceStep(p)
        \/ HandleQuery(p)
        \/ Finish(p)

Spec == Init /\ [][Next]_vars

\* NexoraService.chat called by code that passes no database session
NextFacade ==
    \E p \in Procs :
        \/ DirectChat(p)
        \/ DirectQuery(p)
        \/ ServiceStep(p)
        \/ HandleQuery(p)
        \/ Finish(p)

SpecFacade == Init /\ [][NextFacade]_vars

\* the tools applied to what the campus API can answer
NextTools == HttpRequest \/ FetchCall \/ SearchCall \/ UserCall

SpecTools == Init /\ [][NextTools]_vars

\* the knowledge search applied to what the store can hold
NextRag == SearchKnowledge \/ ChunkText \/ ProcessMarkdownFiles

SpecRag == Init /\ [][NextRag]_vars

\* callers of ConversationService whose database sessions do not overlap
NextSeq ==
    \E p \in Procs :
        \/ SeqOpen(p)
        \/ SeqHistory(p)
        \/ ServiceCall(p)
        \/ GocSelect(p)
        \/ GocCommit(p)
        \/ GocInsert(p)
        \/ GetHistory(p)
        \/ SaveFlush(p)
        \/ SaveCommit(p)
        \/ ServiceClose(p)
        \/ Finish(p)

SpecSeq == Init /\ [][NextSeq]_vars

\* ------------------------------------------------------------------------
\* Properties
\* ------------------------------------------------------------------------

\* a comes before b in the sequence s wherever b occurs
Precedes(s, a, b) ==
    \A j \in 1..Len(s) : s[j] = b => \E i \in 1..(j - 1) : s[i] = a

Flagged(p) == verdict[p] # NoVerdict /\ verdict[p].flagged

Unflagged(p) == verdict[p] # NoVerdict /\ ~verdict[p].flagged

\* C1: a chat request whose moderation verdict is flagged is answered with
\* the fixed redirect message, content_flagged, moderated and success all
\* true, and neither NexoraService.chat nor handle_query (nor any service
\* call) is made within it
FlaggedIsShortCircuited ==
    \A p \in Procs :
        (req[p].kind = "chat" /\ Flagged(p)) =>
            /\ at[p] = "done"
            /\ out[p].response = RedirectMessage
            /\ out[p].content_flagged
            /\ out[p].moderated
            /\ out[p].success
            /\ log[p] = <<"moderate_content">>
            /\ answer[p] = None /\ result[p] = NoResult /\ call[p] = NoCall

FlaggedReached ==
    \E p \in Procs :
        /\ req[p].kind = "chat" /\ Flagged(p) /\ at[p] = "done"
        /\ req[p].message = MsgBomb /\ "violence" \in verdict[p].categories

\* C2: on the chat and on the voice path, every call of handle_query on a
\* user input comes after a moderation check of that input whose verdict was
\* not flagged
HandleQueryIsScreened ==
    \A p \in Procs :
        (req[p].kind \in {"chat", "voice"} /\ "handle_query" \in Range(log[p])) =>
            /\ Precedes(log[p], "moderate_content", "handle_query")
            /\ Unflagged(p)

\* C3: when the orchestrator has returned for an unflagged chat request and
\* no database operation failed, the finished request has persisted an
\* assistant message with the response text for that turn; a finished
\* request that failed has persisted an error turn unless saving it failed
AssistantTurnPersisted ==
    \A p \in Procs :
        (req[p].kind = "chat" /\ at[p] = "done" /\ Unflagged(p)
           /\ "handle_query" \in Range(log[p])
           /\ "database error" \notin Range(log[p])) =>
            \E i \in 1..Len(msgs) :
                /\ msgs[i].id = <<req[p].id, "assistant">>
                /\ msgs[i].role = "assistant"
                /\ \/ msgs[i].content = answer[p] /\ msgs[i].success = TRUE
                   \/ msgs[i].intent = "error" /\ msgs[i].success = FALSE

\* C4: the chat answer has success true, no error and the orchestrator's
\* text whenever the orchestrator gave a normal answer and no database
\* operation failed; an answer with success false carries an error string
NormalAnswerSucceeds ==
    \A p \in Procs :
        (req[p].kind = "chat" /\ at[p] = "done" /\ Unflagged(p)) =>
            /\ (answer[p] \in ModelTexts /\ "database error" \notin Range(log[p])) =>
                  /\ out[p].success
                  /\ out[p].error = None
                  /\ out[p].response = answer[p]
            /\ ~out[p].success => out[p].error \notin {None, ""}

\* C5: NexoraService.chat ends by returning a dict with a response string
\* and a success flag, whatever failed on the way (the acquisition of the
\* database session included); a failure dict carries the fixed apology
ChatAlwaysReturnsDict ==
    \A p \in Procs :
        (req[p].kind = "direct" /\ at[p] = "done") =>
            /\ result[p].status = "returned"
            /\ result[p].response \in ModelTexts \cup {GeneralErrorMessage, Apology}
            /\ result[p].success \in BOOLEAN
            /\ ~result[p].success => result[p].response = Apology
            /\ "database error" \in Range(log[p]) => ~result[p].success

FailedBeforeConversationReached ==
    \E p \in Procs :
        /\ req[p].kind = "direct" /\ at[p] = "done"
        /\ conversation[p] = None
        /\ "get_or_create_conversation" \in Range(log[p])
        /\ result[p].response = Apology /\ result[p].error = "DBAPIError"

\* C6: within a chat request save_user_message comes strictly after
\* get_conversation_history and strictly before handle_query, and the
\* history handed to the orchestrator does not hold the request's own user
\* message
HistoryReadBeforeSave ==
    \A p \in Procs :
        req[p].kind = "chat" =>
            /\ Precedes(log[p], "get_conversation_history", "save_user_message")
            /\ Precedes(log[p], "save_user_message", "handle_query")
            /\ at[p] = "handle_query" =>
                  "get_conversation_history" \in Range(log[p])
            /\ \A i \in 1..Len(hist[p]) : hist[p][i].id # <<req[p].id, "user">>

HistoryHandedOverReached ==
    \E p \in Procs :
        /\ req[p].kind = "chat" /\ "handle_query" \in Range(log[p])
        /\ hist[p] # <<>>
        /\ \E i \in 1..Len(msgs) : msgs[i].id = <<req[p].id, "user">>

\* C9: a conversation's total_messages equals the number of messages stored
\* for it, in every state of the store
TotalMessagesIsCount ==
    \A sid \in SessionIds :
        convs[sid].exists =>
            convs[sid].total_messages = Len(MessagesOf(msgs, sid))

\* the text of an f-string is not empty
NonEmpty(text) == \E i \in 1..Len(text) : text[i] # ""

IsErrorDict(v) ==
    /\ v.t = "dict"
    /\ DOMAIN v.v = {"error", "success"}
    /\ v.v.success = FALSE
    /\ NonEmpty(v.v.error)

FetchTools ==
    {"fetch_bus_routes", "fetch_events", "fetch_departments", "fetch_cafeteria_menu"}

UserTools == {"get_user_exam_results", "get_user_data"}

\* C7: no tool call raises; a transport or HTTP-status failure of the
\* request yields a dict with success false and a non-empty error string; a
\* successful request yields the upstream data (as the value of a fetch
\* tool, under "data" for handle_http_request, under the result key of the
\* user tools)
ToolFailureIsContained ==
    fn.name \notin {"none", "search_knowledge"} =>
        /\ ~fn.result.raised
        /\ fn.outcome.kind \in {"transport", "status"} =>
              IsErrorDict(fn.result.value)
        /\ (fn.outcome.kind = "ok" /\ fn.name \in FetchTools) =>
              fn.result.value = fn.outcome.data
        /\ (fn.outcome.kind = "ok" /\ fn.name = "handle_http_request"
              /\ Upper(fn.query) \in {"GET", "POST"}) =>
              fn.result.value = PyDict([data |-> fn.outcome.data, success |-> TRUE])
        /\ (fn.outcome.kind = "ok" /\ fn.name \in UserTools /\ fn.user_id = "42") =>
              /\ fn.result.value.v.success
              /\ \E k \in {"exam_results", "user_data"} :
                    /\ k \in DOMAIN fn.result.value.v
                    /\ fn.result.value.v[k] = fn.outcome.data

SilentTimeoutContained ==
    /\ fn.name = "search_bus_routes"
    /\ fn.outcome.kind = "transport" /\ fn.outcome.text = ""
    /\ fn.result.value = ErrorDict("HTTP request failed: ", "")

\* C8: every result search_knowledge returns is a hit of the store whose
\* relevance score, taken as 0 when the hit has none, reaches the
\* similarity threshold
ResultsReachThreshold ==
    fn.name = "search_knowledge" =>
        \A i \in 1..Len(fn.result) :
            /\ ScoreOf(fn.result[i]) >= similarity_threshold
            /\ "_relevance_score" \in DOMAIN fn.result[i]
            /\ \E j \in 1..Len(fn.hits) : fn.hits[j] = fn.result[i]

BelowThresholdDropped ==
    /\ fn.name = "search_knowledge"
    /\ Len(fn.hits) = 3 /\ fn.limit = 0
    /\ ScoreOf(fn.hits[1]) = 69 /\ ScoreOf(fn.hits[2]) = 70
    /\ "_relevance_score" \notin DOMAIN fn.hits[3]
    /\ fn.result = <<fn.hits[2]>>

HistoryIsNewestWindow ==
    \A p \in Procs :
        (req[p].kind = "history" /\ at[p] = "service") =>
            LET sid == req[p].session_id
                rows == IF convs[sid].exists THEN MessagesOf(msgs, sid) ELSE <<>>
                n == IF "swallowed" \in DOMAIN res[p] THEN 0
                     ELSE Min(req[p].limit, Len(rows))
            IN  /\ Len(hist[p]) = n
                /\ \A i \in 1..n :
                      hist[p][i] = to_model_message(rows[Len(rows) - n + i])

HistoryTruncatedReached ==
    \E p \in Procs :
        /\ req[p].kind = "history" /\ at[p] = "service"
        /\ req[p].limit = 1
        /\ Len(MessagesOf(msgs, req[p].session_id)) = 2
        /\ Len(hist[p]) = 1
        /\ hist[p][1].id = MessagesOf(msgs, req[p].session_id)[2].id

\* C11 as stated: every call returns min(limit, stored count) messages
HistoryHasMinLimitCount ==
    \A p \in Procs :
        (req[p].kind = "history" /\ at[p] = "service") =>
            LET sid == req[p].session_id
                rows == IF convs[sid].exists THEN MessagesOf(msgs, sid) ELSE <<>>
            IN  Len(hist[p]) = Min(req[p].limit, Len(rows))

\* C12: the Conversation object a task got from get_or_create_conversation
\* for a session_id is the one row stored for that session_id, whatever
\* the interleaving; a concurrent first request that loses the INSERT gets
\* an error and no second Conversation
OneConversationPerSession ==
    \A p \in Procs :
        (conversation[p] # None /\ loc[p].exists) =>
            /\ convs[conversation[p]].exists
            /\ loc[p].session_id = conversation[p]
            /\ loc[p].id = convs[conversation[p]].id

ConcurrentCreateRefused ==
    \E p, q \in Procs :
        /\ res[p] = Raised("IntegrityError")
        /\ "get_conversation_history" \notin Range(log[p])
        /\ conversation[p] = None
        /\ req[q].session_id = req[p].session_id
        /\ conversation[q] # None /\ loc[q].exists
        /\ loc[q].id = convs[conversation[q]].id

\* C13: when the external moderation call of a chat request raises,
\* moderate_content returns flagged = false with reason "Moderation service
\* unavailable" and the request goes on to NexoraService.chat
ModerationFailsOpen ==
    \A p \in Procs :
        (req[p].kind = "chat" /\ req[p].api = "raise") =>
            /\ verdict[p] = ModerationUnavailable
            /\ ~verdict[p].flagged
            /\ SubSeq(log[p], 1, 2) = <<"moderate_content", "NexoraService.chat">>
            /\ at[p] # "done" \/ out[p].content_flagged = FALSE

FailedOpenReachedOrchestrator ==
    \E p \in Procs :
        /\ req[p].kind = "chat" /\ req[p].api = "raise"
        /\ req[p].message = MsgBomb
        /\ "handle_query" \in Range(log[p])
        /\ answer[p] \in ModelTexts

\* C14: when the external moderation capability has no key, answers with a
\* status other than 200, or raises, the verdict is that of the keyword
\* scan: flagged iff a keyword of some category occurs in the content
FallbackIsKeywordScan ==
    \A p \in Procs :
        (/\ req[p].kind = "chat" /\ verdict[p] # NoVerdict
         /\ req[p].api \in {"not called", "non200", "raise"}) =>
            /\ verdict[p].flagged = (KeywordCategories(req[p].message) # {})
            /\ verdict[p].categories = KeywordCategories(req[p].message)

\* C15: a request to an endpoint other than the health probe that does not
\* present the API key is answered 401 or 403 and nothing of it is
\* processed (no moderation, orchestrator, database or voice pipeline step)
UnauthenticatedIsRejected ==
    \A p \in Procs :
        (req[p].kind \in {"chat", "voice"} /\ req[p].credentials # API_KEY) =>
            /\ at[p] = "done"
            /\ log[p] = <<>>
            /\ verdict[p] = NoVerdict /\ answer[p] = None
            /\ out[p] \in {[status |-> 401], [status |-> 403]}

\* C16: the usage a chat request's model invocation starts from includes the
\* usage of the earlier requests of its session: a request about to invoke
\* the model holds at least the requests and tokens that a finished request
\* of the same session has accumulated
UsageAggregatesOverSession ==
    \A p, q \in Procs :
        (/\ req[p].kind = "chat" /\ req[q].kind = "chat"
         /\ req[p].session_id = req[q].session_id
         /\ at[q] = "done" /\ agent_run[q].ran
         /\ at[p] = "handle_query") =>
            /\ UsageOf(req[p].usage).requests >= agent_run[q].usage_after.requests
            /\ UsageOf(req[p].usage).total_tokens
                  >= agent_run[q].usage_after.total_tokens

\* C20: a client created by NexoraService.chat or by handle_query is closed
\* exactly once when that call has ended, on every exit path, and not
\* before; a client supplied by the caller is never closed; the tools of a
\* run get the request's client, the supplied one if there is one
ClientReleasedOnce ==
    \A p \in Procs :
        /\ http[p].owner = "caller" => http[p].closes = 0
        /\ http[p].owner \in {"chat", "handle_query"} =>
              http[p].closes = (IF at[p] = "done" THEN 1 ELSE 0)
        /\ (req[p].kind \in {"direct", "query"} /\ at[p] = "done") =>
              http[p].owner # "none"
        /\ agent_run[p].ran =>
              /\ http[p].owner # "none"
              /\ agent_run[p].http_client = http[p].client

CreatedClientClosedOnFailure ==
    \E p, q \in Procs :
        /\ req[p].kind = "direct" /\ at[p] = "done"
        /\ http[p].owner = "chat" /\ http[p].closes = 1
        /\ ~result[p].success /\ ~agent_run[p].ran
        /\ req[q].kind = "query" /\ at[q] = "done"
        /\ http[q].owner = "caller" /\ agent_run[q].ran
        /\ agent_run[q].http_client = SuppliedClient.client

Ceil(n, d) == (n + d - 1) \div d

\* the k-th of the consecutive windows of `size` tokens
WindowAt(tokens, size, k) ==
    SubSeq(tokens, (k - 1) * size + 1, Min(k * size, Len(tokens)))

\* C17: unless the tokenizer raises, in which case the whole text is the
\* single chunk, chunk_text gives the consecutive non-overlapping windows of
\* at most chunk_size tokens of the text's token sequence, in order and
\* covering it: ceil(n / chunk_size) chunks for n tokens, only the last one
\* shorter, none for an empty sequence (8192, 8192, 3616 for 20,000 tokens
\* at 8192); each stored record carries its zero-based chunk_index and the
\* number of chunks of its file as total_chunks
ChunksAreTokenWindows ==
    /\ fn.name = "chunk_text" =>
          LET tokens == Encode(fn.text)
              chunks == fn.result
          IN  IF fn.fails THEN chunks = <<fn.text>>
              ELSE /\ Len(chunks) = Ceil(Len(tokens), fn.chunk_size)
                   /\ \A k \in 1..Len(chunks) :
                         /\ chunks[k] = Decode(WindowAt(tokens, fn.chunk_size, k))
                         /\ Len(WindowAt(tokens, fn.chunk_size, k)) <= fn.chunk_size
                         /\ k < Len(chunks) =>
                               Len(WindowAt(tokens, fn.chunk_size, k)) = fn.chunk_size
                   /\ Decode(tokens) = fn.text
    /\ fn.name = "_process_markdown_files" =>
          \A i \in 1..Len(fn.result) :
              LET doc == fn.result[i]
                  same == {j \in 1..Len(fn.result) :
                              fn.result[j].source_file = doc.source_file}
              IN  /\ doc.total_chunks = Cardinality(same)
                  /\ doc.chunk_index = Cardinality({j \in same : j < i})
    /\ ScenarioWindowSizes = <<8192, 8192, 3616>>

ShortLastWindowReached ==
    /\ fn.name = "chunk_text" /\ ~fn.fails
    /\ fn.chunk_size = 2
    /\ fn.text = <<"a", "b", "b", "a">>
    /\ fn.result = <<<<"a", "b", "b">>, <<"a">>>>

\* C17 as stated: n tokens always yield ceil(n / chunk_size) chunks
ChunkCountIsCeiling ==
    fn.name = "chunk_text" =>
        Len(fn.result) = Ceil(Len(Encode(fn.text)), fn.chunk_size)

\* C18: a save_user_message or save_assistant_message call that raises
\* leaves the store as it was: the step in which the call raises commits no
\* Message and changes no conversation
FailedSaveLeavesStoreUnchanged ==
    [][\A p \in Procs :
          (/\ pc[p] \in {"save_flush", "save_commit"}
           /\ pc'[p] \notin {"save_flush", "save_commit"}
           /\ res'[p] \in {Raised("DBAPIError"), Raised("IntegrityError")})
          => (convs' = convs /\ msgs' = msgs)]_vars

\* C19: last_activity of a conversation never decreases from one committed
\* value to the next
LastActivityNeverDecreases ==
    [][\A sid \in SessionIds :
          (convs[sid].exists /\ convs'[sid].exists)
          => convs'[sid].last_activity >= convs[sid].last_activity]_vars

\* C21: one query has one datetime snapshot: the context placed in the tool
\* dependencies is the one rendered into the prompt, and all its time
\* fields, local and UTC, denote the same instant
OneNowPerQuery ==
    (fn.name = "handle_query" /\ "error" \notin DOMAIN fn.deps.datetime_context)
    => LET ctx == fn.deps.datetime_context
       IN  /\ fn.enhanced_message[1] = format_datetime_context_for_prompt(ctx)
           /\ \A f \in {"timestamp", "datetime_local", "time", "utc_time",
                         "utc_timestamp"} :
                  InstantOf(ctx[f]) = ctx.unix_timestamp

\* C22: without a usable knowledge base (database not reachable, table
\* missing, table empty, search raising) the search gives no results, the
\* RAG context is empty, and the model is still invoked, with the datetime
\* block followed directly by the user query
NoKnowledgeMeansNoContext ==
    (fn.name = "handle_query"
     /\ (~fn.kb.connects \/ ~fn.kb.table_exists \/ fn.kb.hits = <<>> \/ fn.kb.fails))
    => /\ search_knowledge(fn.kb.table_exists, fn.kb.hits, RagContextLimit,
                           fn.kb.fails) = <<>>
       /\ _get_rag_context(fn.kb) = <<>>
       /\ fn.enhanced_message =
             <<format_datetime_context_for_prompt(fn.deps.datetime_context),
               UserQuery(fn.message)>>
       /\ fn.returned = (IF fn.run.ok THEN fn.run.output ELSE GeneralErrorMessage)

SearchFailureAnswered ==
    /\ fn.name = "handle_query"
    /\ fn.kb.fails /\ fn.kb.hits # <<>>
    /\ ScoreOf(fn.kb.hits[1]) >= similarity_threshold
    /\ Len(fn.enhanced_message) = 2
    /\ fn.run.ok /\ fn.returned = fn.run.output

\* C23: handle_query returns the model output, or the fixed message when
\* an exception was raised; nothing is raised to the caller
QueryNeverRaises ==
    fn.name = "handle_query" =>
        /\ fn.returned \in ModelTexts \cup {GeneralErrorMessage}
        /\ fn.raised => fn.returned = GeneralErrorMessage
        /\ ~fn.raised => fn.returned = fn.run.output

ModelExceptionAnswered ==
    /\ fn.name = "handle_query"
    /\ fn.raised
    /\ fn.returned = GeneralErrorMessage

SearchTools ==
    {"search_bus_routes", "search_events", "search_departments",
     "search_menu_items"}

DirectSearchTools ==
    {"search_bus_routes_direct", "search_events_direct",
     "search_departments_direct", "search_menu_items_direct"}

\* C24: every search tool, registered on the agent or standalone, returns a
\* dict and raises nothing, whatever list or dict the campus API answered
\* with (a bare list, a dict wrapping a list, items that are not dicts, items
\* with null fields)
SearchToolsReturnDicts ==
    (/\ fn.name \in SearchTools \cup DirectSearchTools
     /\ (fn.outcome.kind = "ok" => fn.outcome.data.t \in {"list", "dict"}))
    =>
        /\ ~fn.result.raised
        /\ fn.result.value.t = "dict"

\* C25: the user tools take the user id from the dependency context only:
\* without one, or with one that int() refuses, they return an error dict
\* with success false and issue no HTTP request; otherwise they issue one
\* POST whose body carries the integer value of the context's user id
UserIdOnlyFromContext ==
    fn.name \in UserTools =>
        IF fn.user_id \in {"None", ""} \/ IntOf(fn.user_id).raised
        THEN /\ fn.result.requests = <<>>
             /\ ~fn.result.raised
             /\ IsErrorDict(fn.result.value)
        ELSE fn.result.requests =
                 <<[method |-> "POST",
                    json |-> [user_id |-> IntOf(fn.user_id).value]]>>

UnparsableUserIdRefused ==
    /\ fn.name = "get_user_data"
    /\ fn.user_id = "abc"
    /\ fn.outcome.kind = "ok"
    /\ fn.result.requests = <<>>
    /\ fn.result.value = PyDict([error |-> FString("Invalid user ID format.", ""),
                                 success |-> FALSE])

\* C26: a chat request of one user is not given, as model history, the
\* messages of a conversation stored for another user, and its turns are
\* not appended to such a conversation
ConversationBelongsToItsUser ==
    \A p \in Procs :
        req[p].kind = "chat" =>
            /\ (at[p] = "handle_query" /\ hist[p] # <<>>)
                  => convs[req[p].session_id].user_id = req[p].user_id
            /\ \A i \in 1..Len(msgs) :
                  msgs[i].id = <<req[p].id, "user">>
                  => convs[msgs[i].conversation_id].user_id = req[p].user_id

\* C28: once a conversation has been deactivated, no later chat request on
\* its session appends a message to it or is given its messages as history
DeactivatedConversationIsClosed ==
    [][\A sid \in StoredSessionIds :
          (convs[sid].exists /\ ~convs[sid].is_active)
          => /\ MessagesOf(msgs', sid) = MessagesOf(msgs, sid)
             /\ \A p \in Procs :
                   (req[p].kind = "chat" /\ req[p].session_id = sid
                    /\ hist'[p] # hist[p])
                   => hist'[p] = <<>>]_vars

\* C29: the session_id of a chat response is the session under which the
\* messages of that turn are stored, also when the request named none
ResponseNamesStoringSession ==
    \A p \in Procs :
        (req[p].kind = "chat" /\ at[p] = "done" /\ "session_id" \in DOMAIN out[p])
        => \A i \in 1..Len(msgs) :
              msgs[i].id = <<req[p].id, "user">>
              => msgs[i].conversation_id = out[p].session_id

\* C27: after a load_knowledge_base call that returns false the table
\* holds exactly the chunks it held before the call, whatever overwrite is
FailedLoadLeavesTableUnchanged ==
    [][(/\ knowledge.constructed
        /\ knowledge'.loads # knowledge.loads
        /\ ~fn'.returned)
       => knowledge'.table.rows = knowledge.table.rows]_vars

\* C30: after any sequence of loads of the same directory no two rows of
\* the table have the same id, and after a load that returned true every
\* chunk <stem>_chunk_<i> of the directory is in the table exactly once
ChunkIdsAreUnique ==
    knowledge.constructed =>
        LET rows == knowledge.table.rows
            documents == _process_markdown_files(
                             knowledge.knowledge_base_path.md_files,
                             knowledge.chunk_size, FALSE)
        IN  /\ \A i, j \in 1..Len(rows) : rows[i].id = rows[j].id => i = j
            /\ (fn.name = "load_knowledge_base" /\ fn.returned)
                 => \A k \in 1..Len(documents) :
                       Cardinality({i \in 1..Len(rows) :
                                      rows[i].id = documents[k].id}) = 1

====
